---- MODULE Spec2Model ----
(***************************************************************************)
(* netbox-proxmox-sync: reconciliation of a Proxmox inventory against a    *)
(* NetBox catalog.                                                         *)
(*                                                                         *)
(*   SpecReq  common.make_api_request, one step per attempt                *)
(*   SpecVM   netbox-sync.main: cluster, then get_or_create_vm per VM      *)
(*            (nb_vm, nb_interfaces, nb_ip), one step per catalog request  *)
(*   SpecDev  NetBoxDeviceManager.process_discovered_hosts, one step per   *)
(*            catalog request                                              *)
(*                                                                         *)
(* None is modelled as 0 for identifiers and as "" for strings; catalog    *)
(* identifiers start at 1.                                                 *)
(***************************************************************************)
EXTENDS Integers, Sequences, FiniteSets, TLC

VARIABLES
    rq,      \* make_api_request: its arguments, attempt counter and result
    cat,     \* the catalog (NetBox): one set of records per resource collection
    batch,   \* the desired entities of the pass (VM dicts / discovered hosts)
    pc,      \* the request the reconciler issues next
    i,       \* index in batch of the entity being reconciled
    loc,     \* local variables of the running call chain
    log,     \* requests issued for the current entity, with their outcome class
    rets,    \* per finished entity: the value returned for it
    writes   \* number of records another writer has created during the pass

vars == <<rq, cat, batch, pc, i, loc, log, rets, writes>>

(***************************************************************************)
(* Bounds                                                                  *)
(***************************************************************************)
MaxRetry == 3
MaxBatch == 2
MaxWrites == 1

Max(S) == CHOOSE x \in S : \A y \in S : y <= x
Min(S) == CHOOSE x \in S : \A y \in S : x <= y
Last(s) == s[Len(s)]

(***************************************************************************)
(* common.make_api_request                                                 *)
(***************************************************************************)
Statuses == {200, 201, 404, 409, 500}
Resp(s) == [kind |-> "response", status |-> s]
Raised(k) == [kind |-> k, status |-> 0]
\* what one session.request call can end in: a response, or a raised exception
\* (requests.exceptions.Timeout, ConnectionError, or any other exception)
AttemptOutcomes == {Resp(s) : s \in Statuses}
                   \cup {Raised("timeout"), Raised("connerr"), Raised("other")}
Methods == {"GET", "POST", "PATCH"}
Timeouts == {5, 10}

Pending == [kind |-> "pending", status |-> 0]
None == [kind |-> "none", status |-> 0]

RqIdle == [method |-> "", timeout |-> 0, retry_count |-> 0, attempt |-> 0,
           outs |-> <<>>, used |-> <<>>, ret |-> Pending]

\* the except clauses that let the for loop go on to another attempt
RetryableRetries5xx(o) == o.kind \in {"timeout", "connerr"} \/ o.status >= 500
Retryable(o) == o.kind \in {"timeout", "connerr"}

\* a variant that gives up at the first timeout or connection error
AttemptReturnGivesUp(o, a, retry_count) ==
    IF o.kind = "response" THEN o ELSE None
\* the value make_api_request returns (Pending: none yet, the loop goes on)
\* when attempt number a ends in o
AttemptReturn(o, a, retry_count) ==
    IF o.kind = "response" /\ ~Retryable(o) THEN o
    ELSE IF Retryable(o) THEN (IF a = retry_count THEN None ELSE Pending)
    ELSE None

InitReq ==
    /\ \E m \in Methods, t \in Timeouts, n \in 0..MaxRetry :
          rq = [RqIdle EXCEPT !.method = m, !.timeout = t, !.retry_count = n]
    /\ cat = <<>> /\ batch = <<>> /\ pc = "req" /\ i = 0 /\ loc = <<>>
    /\ log = <<>> /\ rets = <<>> /\ writes = 0

\* one iteration of `for attempt in range(1, retry_count + 1)`
ReqAttempt ==
    /\ pc = "req"
    /\ rq.ret = Pending
    /\ rq.attempt < rq.retry_count
    /\ \E o \in AttemptOutcomes :
          rq' = [rq EXCEPT !.attempt = @ + 1,
                           !.outs = Append(@, o),
                           !.used = Append(@, rq.timeout),
                           !.ret = AttemptReturn(o, rq.attempt + 1, rq.retry_count)]
    /\ UNCHANGED <<cat, batch, pc, i, loc, log, rets, writes>>

\* the loop ended without a return: the trailing `return None`
ReqFallThrough ==
    /\ pc = "req"
    /\ rq.ret = Pending
    /\ rq.attempt >= rq.retry_count
    /\ rq' = [rq EXCEPT !.ret = None]
    /\ UNCHANGED <<cat, batch, pc, i, loc, log, rets, writes>>

NextReq == ReqAttempt \/ ReqFallThrough

SpecReq == InitReq /\ [][NextReq]_vars

\* session.request is given a timeout, so every attempt ends: the loop of
\* make_api_request is not suspended for ever between two attempts
SpecReqFair == InitReq /\ [][NextReq]_vars /\ WF_vars(NextReq)

(***************************************************************************)
(* The catalog (NetBox), as the reconciler sees it through its REST API.   *)
(* A filtered GET lists the matching records in identifier order; a POST   *)
(* gives the new record the next free identifier of its collection; a      *)
(* PATCH changes the named fields of one record.                           *)
(***************************************************************************)
EmptyCat == [cluster |-> {}, vm |-> {}, vmif |-> {}, mac |-> {}, ip |-> {},
             site |-> {}, mf |-> {}, dtype |-> {}, dev |-> {}, dif |-> {},
             svc |-> {}]

NextId(tbl) == IF tbl = {} THEN 1 ELSE Max({r.id : r \in tbl}) + 1
\* results[0] of a listing
First(S) == CHOOSE r \in S : \A q \in S : r.id <= q.id
\* the listing as a sequence, in identifier order
RECURSIVE Listing(_)
Listing(S) == IF S = {} THEN <<>> ELSE <<First(S)>> \o Listing(S \ {First(S)})

\* an address: "host" or "host/mask"; mask 0 stands for no "/mask" part
Addr(h, m) == [host |-> h, mask |-> m]
NoAddr == Addr("", 0)
\* s.split('/')[0]
SplitHost(a) == a.host
\* ipaddress.ip_address(host) succeeds
ParsesAsIp(h) == h \in {"10.0.0.5", "10.0.0.50"}
\* the catalog stores an address with its mask, /32 when none was given
Stored(a) == IF a.mask = 0 THEN Addr(a.host, 32) ELSE a
\* the catalog's free-text search ?q=: the address contains the query string
QMatch(a, q) == a.host = q.host \/ (q.host = "10.0.0.5" /\ a.host = "10.0.0.50")

\* how a catalog request made through make_api_request can end:
\*   none  make_api_request returned None
\*   err   a response with an error status (the catalog did not act)
\*   bad   a 2xx response whose body is not the JSON the caller reads
\*   ok    a 2xx response with a well-formed body (the catalog acted)
ApiOutcomes == {"none", "err", "bad", "ok"}
\* a PATCH: the callers read no body
PatchOutcomes == {"none", "err", "ok"}
\* a request made directly on the session: exc, the request raised
DirectOutcomes == {"exc", "err", "bad", "ok"}
\* a create of a record whose natural key another record of the collection
\* holds is answered with an error status: conflict
Class(o) == IF o \in {"none", "err", "exc"} THEN "fail" ELSE o

Entry(st, o, ref, val, hit) ==
    [st |-> st, out |-> Class(o), ref |-> ref, val |-> val, hit |-> hit]

Method(st) ==
    IF st \in {"cl_get", "vm_get", "if_get", "mac_get", "if_get_id", "ip_get",
               "site_get", "dt_get", "mf_get", "dev_get", "dip_get", "dip_if_get",
               "dif_get", "aip_get", "svc_get", "nsvc_get"} THEN "GET"
    ELSE IF st \in {"cl_post", "vm_post", "if_post", "mac_post", "ip_post",
                    "site_post", "dt_post", "mf_post", "dev_post", "dif_post",
                    "aip_post", "svc_post", "nsvc_post"} THEN "POST"
    ELSE "PATCH"

(***************************************************************************)
(* netbox-sync.main from the cluster stage on: the VM batch                *)
(***************************************************************************)
ClusterName == "pve"
DefaultCores == 1
DefaultMemory == 512
VmIfType == "virtualization.vminterface"

\* a VM dict as get_proxmox_vms builds it (a VM without MAC has no IP)
VmDict(n, st, d, m, a) ==
    [name |-> n, status |-> st, vcpus |-> DefaultCores, memory_mb |-> DefaultMemory,
     disk_gb |-> d, mac_addr |-> m, ip_addr |-> a]

VmDicts ==
    { VmDict("vm-a", "active", 1, "aa:01", Addr("10.0.0.5", 0)),
      VmDict("vm-a", "offline", 0, "aa:01", Addr("bogus", 0)),
      VmDict("vm-a", "active", 1, "aa:01", NoAddr),
      VmDict("vm-b", "active", 1, "aa:02", Addr("10.0.0.5", 0)),
      VmDict("vm-b", "offline", 0, "", NoAddr) }

Batches(D) == UNION { [1..n -> D] : n \in 1..MaxBatch }

\* catalogs a pass can start from
ClusterOnlyCat == [EmptyCat EXCEPT !.cluster = {[id |-> 1, name |-> ClusterName]}]
\* vm-a as a complete earlier pass for the first VmDict leaves it
SyncedCat ==
    [ClusterOnlyCat EXCEPT
        !.vm = {[id |-> 1, name |-> "vm-a", cluster |-> 1, status |-> "active",
                 vcpus |-> 1, memory |-> 512, disk |-> 1024, primary_ip4 |-> 1]},
        !.vmif = {[id |-> 1, vm |-> 1, name |-> "eth0", primary_mac |-> 1]},
        !.mac = {[id |-> 1, mac |-> "aa:01", otype |-> VmIfType, oid |-> 1]},
        !.ip = {[id |-> 1, addr |-> Addr("10.0.0.5", 32), otype |-> VmIfType, oid |-> 1]}]
\* vm-a present but divergent, its IP record unassigned, a neighbour address
DriftCat ==
    [ClusterOnlyCat EXCEPT
        !.vm = {[id |-> 1, name |-> "vm-a", cluster |-> 1, status |-> "offline",
                 vcpus |-> 0, memory |-> 0, disk |-> 0, primary_ip4 |-> 0]},
        !.vmif = {[id |-> 1, vm |-> 1, name |-> "eth0", primary_mac |-> 0]},
        !.ip = {[id |-> 1, addr |-> Addr("10.0.0.50", 24), otype |-> "", oid |-> 0],
                [id |-> 2, addr |-> Addr("10.0.0.5", 32), otype |-> "", oid |-> 0]}]
StartCats == {EmptyCat, SyncedCat, DriftCat}

\* the locals of the call chain, and two facts about the catalog as it was when
\* the VM was taken from the batch: insync0, the VM and all that hangs off it
\* were there with the desired attributes; ipvm0, the VM (0: none) whose
\* interface the desired address was assigned to
LocIdle == [cluster_id |-> 0, vm_id |-> 0, iface_id |-> 0, mac_id |-> 0,
            ip_id |-> 0, ret |-> FALSE, insync0 |-> FALSE, ipvm0 |-> 0]

\* c holds vm with every attribute, interface, MAC binding, address and
\* primary address the pass would give it
InSync(c, vm, cluster_id) ==
    \E v \in c.vm :
      /\ v.name = vm.name /\ v.cluster = cluster_id /\ v.status = vm.status
      /\ v.vcpus = vm.vcpus /\ v.memory = vm.memory_mb
      /\ (vm.disk_gb > 0 => v.disk = vm.disk_gb * 1024)
      /\ (vm.mac_addr # "" =>
            \E f \in c.vmif, m \in c.mac :
              /\ f.vm = v.id /\ f.name = "eth0"
              /\ m.mac = vm.mac_addr /\ m.otype = VmIfType /\ m.oid = f.id
              /\ f.primary_mac = m.id
              /\ (vm.ip_addr # NoAddr /\ ParsesAsIp(vm.ip_addr.host) =>
                    \E a \in c.ip :
                      /\ a.addr.host = vm.ip_addr.host
                      /\ a.otype = VmIfType /\ a.oid = f.id
                      /\ v.primary_ip4 = a.id))

\* the VMs of c that have an interface the address a is assigned to
IpOwnerVms(c, a) ==
    {f.vm : f \in {g \in c.vmif : \E r \in c.ip :
                      r.addr.host = a.host /\ r.otype = VmIfType /\ r.oid = g.id}}

\* the locals as main's loop takes VM number k of the batch
TakeVm(c, k, cluster_id) ==
    IF k > Len(batch) THEN [LocIdle EXCEPT !.cluster_id = cluster_id]
    ELSE [LocIdle EXCEPT
            !.cluster_id = cluster_id,
            !.insync0 = InSync(c, batch[k], cluster_id),
            !.ipvm0 = IF IpOwnerVms(c, batch[k].ip_addr) = {} THEN 0
                      ELSE Min(IpOwnerVms(c, batch[k].ip_addr))]

InitVM ==
    /\ rq = RqIdle
    /\ cat \in StartCats
    /\ batch \in Batches(VmDicts)
    /\ pc = "cl_get" /\ i = 0 /\ loc = LocIdle
    /\ log = <<>> /\ rets = <<>> /\ writes = 0

\* the next request of main once a catalog call for the cluster has returned id
\* (get_or_create_cluster's return value, then the first VM of the batch)
AfterCluster(id) == IF id = 0 THEN "exit1" ELSE "vm_get"

\* netbox-sync.get_or_create_cluster: the lookup, made directly on the session
ClusterGet ==
    /\ pc = "cl_get"
    /\ \E o \in DirectOutcomes :
         LET results == {r \in cat.cluster : r.name = ClusterName}
             hit == IF results = {} THEN 0 ELSE First(results).id
         IN /\ log' = Append(log, Entry("cl_get", o, 0, 0, IF o = "ok" THEN hit ELSE 0))
            /\ IF o \in {"exc", "bad"} THEN pc' = "crashed" /\ UNCHANGED <<loc, i>>
               ELSE IF o = "ok" /\ results # {}
                    THEN /\ pc' = AfterCluster(hit)
                         /\ loc' = TakeVm(cat, 1, hit)
                         /\ i' = 1
               ELSE pc' = "cl_post" /\ UNCHANGED <<loc, i>>
    /\ UNCHANGED <<rq, cat, batch, rets, writes>>

\* netbox-sync.get_or_create_cluster: the create
ClusterPost ==
    /\ pc = "cl_post"
    /\ \E o \in DirectOutcomes :
         LET dup == \E r \in cat.cluster : r.name = ClusterName
             eff == IF o = "ok" /\ dup THEN "conflict" ELSE o
             id == NextId(cat.cluster)
         IN /\ log' = Append(log, Entry("cl_post", eff, 0, 0, 0))
            /\ IF eff = "ok"
               THEN /\ cat' = [cat EXCEPT !.cluster = @ \cup {[id |-> id, name |-> ClusterName]}]
                    /\ loc' = TakeVm(cat', 1, id)
                    /\ pc' = AfterCluster(id)
                    /\ i' = 1
               ELSE /\ pc' = IF eff \in {"err", "conflict"} THEN AfterCluster(0) ELSE "crashed"
                    /\ UNCHANGED <<cat, loc, i>>
    /\ UNCHANGED <<rq, batch, rets, writes>>

(***************************************************************************)
(* nb_vm.get_or_create_vm                                                  *)
(***************************************************************************)
\* vm_exists = bool(results)
VmExistsNever(results) == FALSE
VmExists(results) == results # {}

\* update_data of the resource update: the fields it carries
UpdateData(vm) ==
    (IF vm.vcpus # 0 THEN {"vcpus"} ELSE {})
    \cup (IF vm.memory_mb # 0 THEN {"memory"} ELSE {})
    \cup (IF vm.disk_gb > 0 THEN {"disk"} ELSE {})

\* nb_ip.validate_ip_address
validate_ip_addressAcceptsAll(a) == TRUE
validate_ip_address(a) == ParsesAsIp(SplitHost(a))

\* where get_or_create_vm goes once ensure_vm_interface_with_mac returned
\* iface_id: the guard of the IP stage, then the two early returns of
\* ensure_ip_on_interface_and_vm; "vm_ret" is `return True`
AfterIfaceMacAgain(iface_id, vm) ==
    IF iface_id # 0 /\ vm.ip_addr # NoAddr /\ validate_ip_address(vm.ip_addr)
    THEN "mac_get" ELSE "vm_ret"
AfterIface(iface_id, vm) ==
    IF iface_id # 0 /\ vm.ip_addr # NoAddr /\ validate_ip_address(vm.ip_addr)
    THEN "ip_get" ELSE "vm_ret"

\* where get_or_create_vm goes after the resource update: the first line of
\* ensure_vm_interface_with_mac returns None when there is no MAC
AfterResources(vm) == IF vm.mac_addr = "" THEN AfterIface(0, vm) ELSE "if_get"

AfterStatus(vm) == IF UpdateData(vm) # {} THEN "vm_patch_res" ELSE AfterResources(vm)

\* get_or_create_vm returns v to main
Return(v) == pc' = "vm_ret" /\ loc' = [loc EXCEPT !.ret = v]
\* an exception no handler of the call chain catches reaches main
Crash == pc' = "crashed" /\ UNCHANGED loc

VmGet ==
    /\ pc = "vm_get"
    /\ \E o \in ApiOutcomes :
         LET vm == batch[i]
             results == {r \in cat.vm : r.name = vm.name /\ r.cluster = loc.cluster_id}
             hit == IF o = "ok" /\ results # {} THEN First(results).id ELSE 0
         IN /\ log' = Append(log, Entry("vm_get", o, loc.cluster_id, 0, hit))
            /\ CASE o \in {"none", "err"} -> Return(FALSE)
                 [] o = "bad" -> Crash
                 [] o = "ok" ->
                      IF VmExists(results)
                      THEN pc' = "vm_patch_status" /\ loc' = [loc EXCEPT !.vm_id = First(results).id]
                      ELSE pc' = "vm_post" /\ UNCHANGED loc
    /\ UNCHANGED <<rq, cat, batch, i, rets, writes>>

\* the status update of a VM that exists; its result is not looked at
VmPatchStatus ==
    /\ pc = "vm_patch_status"
    /\ \E o \in PatchOutcomes :
         LET vm == batch[i]
         IN /\ log' = Append(log, Entry("vm_patch_status", o, loc.vm_id, 0, 0))
            /\ cat' = IF o = "ok"
                      THEN [cat EXCEPT !.vm = {IF r.id = loc.vm_id
                                               THEN [r EXCEPT !.status = vm.status]
                                               ELSE r : r \in @}]
                      ELSE cat
            /\ pc' = AfterStatus(vm)
            /\ loc' = IF pc' = "vm_ret" THEN [loc EXCEPT !.ret = TRUE] ELSE loc
    /\ UNCHANGED <<rq, batch, i, rets, writes>>

VmPost ==
    /\ pc = "vm_post"
    /\ \E o \in ApiOutcomes :
         LET vm == batch[i]
             dup == \E r \in cat.vm : r.name = vm.name /\ r.cluster = loc.cluster_id
             eff == IF o = "ok" /\ dup THEN "conflict" ELSE o
             id == NextId(cat.vm)
         IN /\ log' = Append(log, Entry("vm_post", eff, loc.cluster_id, 0, 0))
            /\ CASE eff \in {"none", "err", "conflict"} -> Return(FALSE) /\ UNCHANGED cat
                 [] eff = "bad" -> Crash /\ UNCHANGED cat
                 [] eff = "ok" ->
                      /\ cat' = [cat EXCEPT !.vm = @ \cup
                                   {[id |-> id, name |-> vm.name, cluster |-> loc.cluster_id,
                                     status |-> vm.status, vcpus |-> 0, memory |-> 0,
                                     disk |-> 0, primary_ip4 |-> 0]}]
                      /\ pc' = AfterStatus(vm)
                      /\ loc' = [loc EXCEPT !.vm_id = id, !.ret = (pc' = "vm_ret")]
    /\ UNCHANGED <<rq, batch, i, rets, writes>>

\* the resource update; its result is not looked at
VmPatchRes ==
    /\ pc = "vm_patch_res"
    /\ \E o \in PatchOutcomes :
         LET vm == batch[i]
             f == UpdateData(vm)
         IN /\ log' = Append(log, Entry("vm_patch_res", o, loc.vm_id, 0, 0))
            /\ cat' = IF o = "ok"
                      THEN [cat EXCEPT !.vm = {IF r.id = loc.vm_id
                               THEN [r EXCEPT
                                       !.vcpus = IF "vcpus" \in f THEN vm.vcpus ELSE @,
                                       !.memory = IF "memory" \in f THEN vm.memory_mb ELSE @,
                                       !.disk = IF "disk" \in f THEN vm.disk_gb * 1024 ELSE @]
                               ELSE r : r \in @}]
                      ELSE cat
            /\ pc' = AfterResources(vm)
            /\ loc' = IF pc' = "vm_ret" THEN [loc EXCEPT !.ret = TRUE] ELSE loc
    /\ UNCHANGED <<rq, batch, i, rets, writes>>

(***************************************************************************)
(* nb_interfaces.ensure_vm_interface_with_mac (eth_name is "eth0")         *)
(***************************************************************************)
EthName == "eth0"

\* data.get("count", 0) > 0
IfaceExistsNever(count) == FALSE
IfaceExists(count) == count > 0

\* ensure_vm_interface_with_mac returns iface_id (0: None) to get_or_create_vm
IfaceReturnNone(iface_id) ==
    /\ pc' = AfterIface(0, batch[i])
    /\ loc' = [loc EXCEPT !.iface_id = 0, !.ret = (pc' = "vm_ret")]
IfaceReturn(iface_id) ==
    /\ pc' = AfterIface(iface_id, batch[i])
    /\ loc' = [loc EXCEPT !.iface_id = iface_id, !.ret = (pc' = "vm_ret")]

IfGet ==
    /\ pc = "if_get"
    /\ \E o \in ApiOutcomes :
         LET results == {r \in cat.vmif : r.vm = loc.vm_id /\ r.name = EthName}
             count == Cardinality(results)
             hit == IF o = "ok" /\ results # {} THEN First(results).id ELSE 0
         IN /\ log' = Append(log, Entry("if_get", o, loc.vm_id, 0, hit))
            /\ CASE o \in {"none", "err"} -> IfaceReturn(0)
                 [] o = "bad" -> Crash
                 [] o = "ok" ->
                      IF IfaceExists(count)
                      THEN pc' = "mac_get" /\ loc' = [loc EXCEPT !.iface_id = First(results).id]
                      ELSE pc' = "if_post" /\ UNCHANGED loc
    /\ UNCHANGED <<rq, cat, batch, i, rets, writes>>

IfPost ==
    /\ pc = "if_post"
    /\ \E o \in ApiOutcomes :
         LET dup == \E r \in cat.vmif : r.vm = loc.vm_id /\ r.name = EthName
             eff == IF o = "ok" /\ dup THEN "conflict" ELSE o
             id == NextId(cat.vmif)
         IN /\ log' = Append(log, Entry("if_post", eff, loc.vm_id, 0, 0))
            /\ CASE eff \in {"none", "err", "conflict"} -> IfaceReturn(0) /\ UNCHANGED cat
                 [] eff = "bad" -> Crash /\ UNCHANGED cat
                 [] eff = "ok" ->
                      /\ cat' = [cat EXCEPT !.vmif = @ \cup
                                   {[id |-> id, vm |-> loc.vm_id, name |-> EthName,
                                     primary_mac |-> 0]}]
                      /\ pc' = "mac_get"
                      /\ loc' = [loc EXCEPT !.iface_id = id]
    /\ UNCHANGED <<rq, batch, i, rets, writes>>

MacGet ==
    /\ pc = "mac_get"
    /\ \E o \in ApiOutcomes :
         LET mac == batch[i].mac_addr
             results == {r \in cat.mac : r.mac = mac /\ r.otype = VmIfType
                                          /\ r.oid = loc.iface_id}
             hit == IF o = "ok" /\ results # {} THEN First(results).id ELSE 0
         IN /\ log' = Append(log, Entry("mac_get", o, loc.iface_id, 0, hit))
            /\ CASE o \in {"none", "err"} -> IfaceReturn(loc.iface_id)
                 [] o = "bad" -> Crash
                 [] o = "ok" ->
                      IF Cardinality(results) > 0
                      THEN pc' = "if_get_id" /\ loc' = [loc EXCEPT !.mac_id = First(results).id]
                      ELSE pc' = "mac_post" /\ UNCHANGED loc
    /\ UNCHANGED <<rq, cat, batch, i, rets, writes>>

MacPost ==
    /\ pc = "mac_post"
    /\ \E o \in ApiOutcomes :
         LET id == NextId(cat.mac)
         IN /\ log' = Append(log, Entry("mac_post", o, loc.iface_id, 0, 0))
            /\ CASE o \in {"none", "err"} -> IfaceReturn(loc.iface_id) /\ UNCHANGED cat
                 [] o = "bad" -> Crash /\ UNCHANGED cat
                 [] o = "ok" ->
                      /\ cat' = [cat EXCEPT !.mac = @ \cup
                                   {[id |-> id, mac |-> batch[i].mac_addr,
                                     otype |-> VmIfType, oid |-> loc.iface_id]}]
                      /\ pc' = "if_get_id"
                      /\ loc' = [loc EXCEPT !.mac_id = id]
    /\ UNCHANGED <<rq, batch, i, rets, writes>>

\* the interface is read again for its primary_mac_address
IfGetById ==
    /\ pc = "if_get_id"
    /\ \E o \in ApiOutcomes :
         LET iface == CHOOSE r \in cat.vmif : r.id = loc.iface_id
         IN /\ log' = Append(log, Entry("if_get_id", o, loc.iface_id, 0, 0))
            /\ CASE o \in {"none", "err"} -> IfaceReturn(loc.iface_id)
                 [] o = "bad" -> Crash
                 [] o = "ok" ->
                      IF iface.primary_mac # 0 /\ iface.primary_mac = loc.mac_id
                      THEN IfaceReturn(loc.iface_id)
                      ELSE pc' = "if_patch_mac" /\ UNCHANGED loc
    /\ UNCHANGED <<rq, cat, batch, i, rets, writes>>

IfPatchMac ==
    /\ pc = "if_patch_mac"
    /\ \E o \in PatchOutcomes :
         /\ log' = Append(log, Entry("if_patch_mac", o, loc.iface_id, loc.mac_id, 0))
         /\ cat' = IF o = "ok"
                   THEN [cat EXCEPT !.vmif = {IF r.id = loc.iface_id
                                              THEN [r EXCEPT !.primary_mac = loc.mac_id]
                                              ELSE r : r \in @}]
                   ELSE cat
         /\ IfaceReturn(loc.iface_id)
    /\ UNCHANGED <<rq, batch, i, rets, writes>>

(***************************************************************************)
(* nb_ip.ensure_ip_on_interface_and_vm                                     *)
(***************************************************************************)
\* the candidate loop: the first result whose host part equals the searched one
\* (<<>> when there is none)
RECURSIVE FindCandidate(_, _)
FindCandidate(results, ip_address) ==
    IF results = <<>> THEN <<>>
    ELSE IF SplitHost(Head(results).addr) = SplitHost(ip_address) THEN <<Head(results)>>
    ELSE FindCandidate(Tail(results), ip_address)

needs_update(ip_obj, iface_id) == ip_obj.otype # VmIfType \/ ip_obj.oid # iface_id

\* ensure_ip_on_interface_and_vm returned; get_or_create_vm ignores the value
\* and returns True
IpReturn == pc' = "vm_ret" /\ loc' = [loc EXCEPT !.ret = TRUE]

IpGet ==
    /\ pc = "ip_get"
    /\ \E o \in ApiOutcomes :
         LET ip_address == batch[i].ip_addr
             results == Listing({r \in cat.ip : QMatch(r.addr, ip_address)})
             found == FindCandidate(results, ip_address)
         IN /\ log' = Append(log, Entry("ip_get", o, 0, 0,
                                IF o = "ok" /\ found # <<>> THEN found[1].id ELSE 0))
            /\ CASE o \in {"none", "err"} -> IpReturn
                 [] o = "bad" -> Crash
                 [] o = "ok" ->
                      IF found # <<>>
                      THEN /\ pc' = IF needs_update(found[1], loc.iface_id)
                                    THEN "ip_patch" ELSE "vm_patch_pip"
                           /\ loc' = [loc EXCEPT !.ip_id = found[1].id]
                      ELSE pc' = "ip_post" /\ UNCHANGED loc
    /\ UNCHANGED <<rq, cat, batch, i, rets, writes>>

IpPost ==
    /\ pc = "ip_post"
    /\ \E o \in ApiOutcomes :
         LET id == NextId(cat.ip)
             ip_obj == [id |-> id, addr |-> Stored(batch[i].ip_addr), otype |-> "", oid |-> 0]
         IN /\ log' = Append(log, Entry("ip_post", o, 0, 0, 0))
            /\ CASE o \in {"none", "err"} -> IpReturn /\ UNCHANGED cat
                 [] o = "bad" -> Crash /\ UNCHANGED cat
                 [] o = "ok" ->
                      /\ cat' = [cat EXCEPT !.ip = @ \cup {ip_obj}]
                      /\ pc' = IF needs_update(ip_obj, loc.iface_id)
                               THEN "ip_patch" ELSE "vm_patch_pip"
                      /\ loc' = [loc EXCEPT !.ip_id = id]
    /\ UNCHANGED <<rq, batch, i, rets, writes>>

\* the IP record is pointed at the interface
IpPatch ==
    /\ pc = "ip_patch"
    /\ \E o \in PatchOutcomes :
         /\ log' = Append(log, Entry("ip_patch", o, loc.ip_id, loc.iface_id, 0))
         /\ IF o = "ok"
            THEN /\ cat' = [cat EXCEPT !.ip = {IF r.id = loc.ip_id
                                THEN [r EXCEPT !.otype = VmIfType, !.oid = loc.iface_id]
                                ELSE r : r \in @}]
                 /\ pc' = "vm_patch_pip"
                 /\ UNCHANGED loc
            ELSE IpReturn /\ UNCHANGED cat
    /\ UNCHANGED <<rq, batch, i, rets, writes>>

\* primary_ip4 of the VM is set, whether or not it already has that value
VmPatchPip ==
    /\ pc = "vm_patch_pip"
    /\ \E o \in PatchOutcomes :
         /\ log' = Append(log, Entry("vm_patch_pip", o, loc.vm_id, loc.ip_id, 0))
         /\ cat' = IF o = "ok"
                   THEN [cat EXCEPT !.vm = {IF r.id = loc.vm_id
                                            THEN [r EXCEPT !.primary_ip4 = loc.ip_id]
                                            ELSE r : r \in @}]
                   ELSE cat
         /\ IpReturn
    /\ UNCHANGED <<rq, batch, i, rets, writes>>

(***************************************************************************)
(* main: the loop over the batch, and the other users of the catalog       *)
(***************************************************************************)
VmStages == {"vm_get", "vm_patch_status", "vm_post", "vm_patch_res", "if_get",
             "if_post", "mac_get", "mac_post", "if_get_id", "if_patch_mac",
             "ip_get", "ip_post", "ip_patch", "vm_patch_pip"}

\* the entries of the log that are requests of the stages S
Of(S) == {k \in 1..Len(log) : log[k].st \in S}

\* one step of `sum(1 for vm in vms if get_or_create_vm(...))`: the value
\* returned for batch[i] is consumed and the next VM is taken.  clean records
\* with it whether every request issued for the VM succeeded.
MainLoop ==
    /\ pc = "vm_ret"
    /\ rets' = Append(rets, [ret |-> loc.ret,
                             clean |-> \A k \in Of(VmStages) : log[k].out = "ok"])
    /\ i' = i + 1
    /\ pc' = IF i + 1 > Len(batch) THEN "done" ELSE "vm_get"
    /\ loc' = TakeVm(cat, i + 1, loc.cluster_id)
    /\ log' = <<>>
    /\ UNCHANGED <<rq, cat, batch, writes>>

\* synced, the number main reports
Synced == Cardinality({k \in 1..Len(rets) : rets[k].ret})

Running == pc \notin {"done", "crashed", "exit1"}

\* another client of the catalog creates a VM, or an eth0 interface on a VM,
\* while the pass runs
OtherWriter ==
    /\ Running
    /\ writes < MaxWrites
    /\ writes' = writes + 1
    /\ \/ \E n \in {d.name : d \in VmDicts}, c \in cat.cluster, st \in {"active"} :
            /\ ~\E r \in cat.vm : r.name = n /\ r.cluster = c.id
            /\ cat' = [cat EXCEPT !.vm = @ \cup
                         {[id |-> NextId(cat.vm), name |-> n, cluster |-> c.id,
                           status |-> st, vcpus |-> 0, memory |-> 0, disk |-> 0,
                           primary_ip4 |-> 0]}]
       \/ \E v \in cat.vm :
            /\ ~\E r \in cat.vmif : r.vm = v.id /\ r.name = EthName
            /\ cat' = [cat EXCEPT !.vmif = @ \cup
                         {[id |-> NextId(cat.vmif), vm |-> v.id, name |-> EthName,
                           primary_mac |-> 0]}]
    /\ UNCHANGED <<rq, batch, pc, i, loc, log, rets>>

NextVM ==
    \/ ClusterGet \/ ClusterPost
    \/ VmGet \/ VmPatchStatus \/ VmPost \/ VmPatchRes
    \/ IfGet \/ IfPost \/ MacGet \/ MacPost \/ IfGetById \/ IfPatchMac
    \/ IpGet \/ IpPost \/ IpPatch \/ VmPatchPip
    \/ MainLoop \/ OtherWriter

SpecVM == InitVM /\ [][NextVM]_vars

(***************************************************************************)
(* nb_discovered_hosts.NetBoxDeviceManager.process_discovered_hosts        *)
(* Every request is made directly on the session, inside the try block of  *)
(* the method that makes it.                                               *)
(***************************************************************************)
MaxHosts == 2
\* how a request of the device manager can end: exc, the request raised or its
\* body could not be read (either way the except clause of the method runs);
\* err, a response with an error status; ok, a 2xx response the catalog acted on
DevOutcomes == {"exc", "err", "ok"}
SiteName == "Discovered"
TypeName == "Discovered-Host"
MfName == "Generic"
DevIfType == "dcim.interface"

\* a discovered host; name "" stands for a dict without the key 'name'
HostInfo(a, n, ports, svcs) == [ip |-> a, name |-> n, open_ports |-> ports, services |-> svcs]

HostInfos ==
    { HostInfo("10.0.0.7", "web", <<22, 80>>, <<"SSH", "HTTP">>),
      HostInfo("10.0.0.7", "", <<22>>, <<"SSH">>),
      HostInfo("10.0.0.8", "db", <<>>, <<>>) }

\* f"host-{host_info['ip'].replace('.', '-')}"
DefaultDeviceName(a) == IF a = "10.0.0.7" THEN "host-10-0-0-7" ELSE "host-10-0-0-8"
\* host_info.get('name', default)
DeviceName(h) == IF h.name = "" THEN DefaultDeviceName(h.ip) ELSE h.name
\* f"{service_name}-{port}"
ServiceIdentifier(service_name, port) == <<service_name, port>>

\* the collections a device needs, all present
BaseDevCat ==
    [EmptyCat EXCEPT !.site = {[id |-> 1, name |-> SiteName]},
                     !.mf = {[id |-> 1, name |-> MfName]},
                     !.dtype = {[id |-> 1, model |-> TypeName, mf |-> 1]}]
\* device "web" with eth0 and its address, as a complete earlier pass leaves it
KnownDevCat ==
    [BaseDevCat EXCEPT
        !.dev = {[id |-> 1, name |-> "web", dtype |-> 1, site |-> 1]},
        !.dif = {[id |-> 1, device |-> 1, name |-> EthName]},
        !.ip = {[id |-> 1, addr |-> Addr("10.0.0.7", 32), otype |-> DevIfType, oid |-> 1]},
        !.svc = {[id |-> 1, device |-> 1, name |-> ServiceIdentifier("SSH", 22),
                  ports |-> <<22>>]}]
\* the address is on the interface of a device with another name, and device
\* "web" exists without interface
OtherNameCat ==
    [BaseDevCat EXCEPT
        !.dev = {[id |-> 1, name |-> "web", dtype |-> 1, site |-> 1],
                 [id |-> 2, name |-> "gw", dtype |-> 1, site |-> 1]},
        !.dif = {[id |-> 1, device |-> 2, name |-> EthName]},
        !.ip = {[id |-> 1, addr |-> Addr("10.0.0.7", 32), otype |-> DevIfType, oid |-> 1],
                [id |-> 2, addr |-> Addr("10.0.0.8", 32), otype |-> "", oid |-> 0]}]
DevStartCats == {EmptyCat, KnownDevCat, OtherNameCat}

\* the hosts of one scan: every address at most once
DevBatches ==
    { b \in UNION { [1..n -> HostInfos] : n \in 1..MaxHosts } :
        \A j, k \in 1..Len(b) : j # k => b[j].ip # b[k].ip }

\* the locals of the call chain, and one fact about the catalog as it was when
\* the host was taken from the list: owner0, the device (0: none) whose
\* interface the host's address was assigned to while no device had its name
DevLocIdle == [site_id |-> 0, device_type_id |-> 0, manufacturer_id |-> 0,
               device_id |-> 0, interface_id |-> 0, ip_id |-> 0, assigned |-> 0,
               s |-> 1, p |-> 1, processed |-> 0, owner0 |-> 0]

\* the devices of c that have an interface the address a is assigned to
IpOwnerDevices(c, a) ==
    {f.device : f \in {g \in c.dif : \E r \in c.ip :
                          r.addr.host = a /\ r.otype = DevIfType /\ r.oid = g.id}}

\* the locals as the loop takes host number k of the list
TakeHost(c, k, l) ==
    LET base == [DevLocIdle EXCEPT !.site_id = l.site_id,
                                   !.device_type_id = l.device_type_id,
                                   !.manufacturer_id = l.manufacturer_id,
                                   !.processed = l.processed]
    IN IF k > Len(batch) THEN base
       ELSE [base EXCEPT !.owner0 =
               IF (\E d \in c.dev : d.name = DeviceName(batch[k]))
                  \/ IpOwnerDevices(c, batch[k].ip) = {}
               THEN 0 ELSE Min(IpOwnerDevices(c, batch[k].ip))]

InitDev ==
    /\ rq = RqIdle
    /\ cat \in DevStartCats
    /\ batch \in DevBatches
    /\ pc = "site_get" /\ i = 0 /\ loc = DevLocIdle
    /\ log = <<>> /\ rets = <<>> /\ writes = 0

\* process_discovered_hosts returns 0 before the loop
AbortGoesOn == pc' = "dt_done" /\ UNCHANGED <<loc, i>>
Abort == pc' = "done" /\ UNCHANGED <<loc, i>>

\* get_or_create_site
SiteGet ==
    /\ pc = "site_get"
    /\ \E o \in DevOutcomes :
         LET results == {r \in cat.site : r.name = SiteName}
             hit == IF o = "ok" /\ results # {} THEN First(results).id ELSE 0
         IN /\ log' = Append(log, Entry("site_get", o, 0, 0, hit))
            /\ IF o = "exc" THEN Abort
               ELSE IF o = "ok" /\ results # {}
                    THEN pc' = "dt_get" /\ loc' = [loc EXCEPT !.site_id = hit] /\ UNCHANGED i
               ELSE pc' = "site_post" /\ UNCHANGED <<loc, i>>
    /\ UNCHANGED <<rq, cat, batch, rets, writes>>

SitePost ==
    /\ pc = "site_post"
    /\ \E o \in DevOutcomes :
         LET dup == \E r \in cat.site : r.name = SiteName
             eff == IF o = "ok" /\ dup THEN "conflict" ELSE o
             id == NextId(cat.site)
         IN /\ log' = Append(log, Entry("site_post", eff, 0, 0, 0))
            /\ IF eff = "ok"
               THEN /\ cat' = [cat EXCEPT !.site = @ \cup {[id |-> id, name |-> SiteName]}]
                    /\ pc' = "dt_get" /\ loc' = [loc EXCEPT !.site_id = id] /\ UNCHANGED i
               ELSE Abort /\ UNCHANGED cat
    /\ UNCHANGED <<rq, batch, rets, writes>>

\* the loop over discovered_hosts takes its next host, or ends
NextHost(k) == IF k > Len(batch) THEN "done" ELSE "dev_get"

\* get_or_create_device_type
DtGet ==
    /\ pc = "dt_get"
    /\ \E o \in DevOutcomes :
         LET results == {r \in cat.dtype : r.model = TypeName}
             hit == IF o = "ok" /\ results # {} THEN First(results).id ELSE 0
         IN /\ log' = Append(log, Entry("dt_get", o, 0, 0, hit))
            /\ IF o = "exc" THEN Abort
               ELSE IF o = "ok" /\ results # {}
                    THEN pc' = "dt_done" /\ loc' = [loc EXCEPT !.device_type_id = hit]
                         /\ UNCHANGED i
               ELSE pc' = "mf_get" /\ UNCHANGED <<loc, i>>
    /\ UNCHANGED <<rq, cat, batch, rets, writes>>

\* _get_or_create_manufacturer
MfGet ==
    /\ pc = "mf_get"
    /\ \E o \in DevOutcomes :
         LET results == {r \in cat.mf : r.name = MfName}
             hit == IF o = "ok" /\ results # {} THEN First(results).id ELSE 0
         IN /\ log' = Append(log, Entry("mf_get", o, 0, 0, hit))
            /\ IF o = "exc" THEN Abort
               ELSE IF o = "ok" /\ results # {}
                    THEN pc' = "dt_post" /\ loc' = [loc EXCEPT !.manufacturer_id = hit]
                         /\ UNCHANGED i
               ELSE pc' = "mf_post" /\ UNCHANGED <<loc, i>>
    /\ UNCHANGED <<rq, cat, batch, rets, writes>>

MfPost ==
    /\ pc = "mf_post"
    /\ \E o \in DevOutcomes :
         LET dup == \E r \in cat.mf : r.name = MfName
             eff == IF o = "ok" /\ dup THEN "conflict" ELSE o
             id == NextId(cat.mf)
         IN /\ log' = Append(log, Entry("mf_post", eff, 0, 0, 0))
            /\ IF eff = "ok"
               THEN /\ cat' = [cat EXCEPT !.mf = @ \cup {[id |-> id, name |-> MfName]}]
                    /\ pc' = "dt_post" /\ loc' = [loc EXCEPT !.manufacturer_id = id]
                    /\ UNCHANGED i
               ELSE Abort /\ UNCHANGED cat
    /\ UNCHANGED <<rq, batch, rets, writes>>

DtPost ==
    /\ pc = "dt_post"
    /\ \E o \in DevOutcomes :
         LET dup == \E r \in cat.dtype : r.model = TypeName
             eff == IF o = "ok" /\ dup THEN "conflict" ELSE o
             id == NextId(cat.dtype)
         IN /\ log' = Append(log, Entry("dt_post", eff, loc.manufacturer_id, 0, 0))
            /\ IF eff = "ok"
               THEN /\ cat' = [cat EXCEPT !.dtype = @ \cup
                                 {[id |-> id, model |-> TypeName, mf |-> loc.manufacturer_id]}]
                    /\ pc' = "dt_done" /\ loc' = [loc EXCEPT !.device_type_id = id]
                    /\ UNCHANGED i
               ELSE Abort /\ UNCHANGED cat
    /\ UNCHANGED <<rq, batch, rets, writes>>

\* site and device type are known: the loop over the hosts starts
StartHosts ==
    /\ pc = "dt_done"
    /\ pc' = NextHost(1)
    /\ i' = 1
    /\ log' = <<>>
    /\ loc' = TakeHost(cat, 1, loc)
    /\ UNCHANGED <<rq, cat, batch, rets, writes>>

\* 'device' in str(assigned_object_type).lower()
DeviceInTypeName(t) == t \in {"dcim.device"}

\* the catalog's ?address= filter: the records with that host address
ByAddress(a) == {r \in cat.ip : SplitHost(r.addr) = a}

\* where process_discovered_hosts goes after create_device_interface: the
\* loops over services and open ports, or the end of the host
ServiceLoop(h, s, p) ==
    IF s <= Len(h.services) /\ p <= Len(h.open_ports) THEN "svc_get" ELSE "host_ret"

\* create_discovered_device returns device_id (0: None)
DeviceReturnLooksUpAddress(device_id) ==
    /\ pc' = "dip_get"
    /\ loc' = [loc EXCEPT !.device_id = 0]
DeviceReturn(device_id) ==
    /\ pc' = IF device_id # 0 THEN "dif_get" ELSE "host_ret"
    /\ loc' = [loc EXCEPT !.device_id = device_id]

\* _get_existing_device, check 1: by device name
DevGet ==
    /\ pc = "dev_get"
    /\ \E o \in DevOutcomes :
         LET results == {r \in cat.dev : r.name = DeviceName(batch[i])}
             hit == IF o = "ok" /\ results # {} THEN First(results).id ELSE 0
         IN /\ log' = Append(log, Entry("dev_get", o, 0, 0, hit))
            /\ IF o = "ok" /\ results # {}
               THEN DeviceReturn(hit)
               ELSE pc' = "dip_get" /\ UNCHANGED loc
    /\ UNCHANGED <<rq, cat, batch, i, rets, writes>>

\* _get_device_by_ip: the address record
DipGet ==
    /\ pc = "dip_get"
    /\ \E o \in DevOutcomes :
         LET results == ByAddress(batch[i].ip)
             hit == IF o = "ok" /\ results # {} THEN First(results).id ELSE 0
         IN /\ log' = Append(log, Entry("dip_get", o, 0, 0, hit))
            /\ IF o = "ok" /\ results # {}
                  /\ First(results).oid # 0 /\ First(results).otype = DevIfType
               THEN pc' = "dip_if_get" /\ loc' = [loc EXCEPT !.assigned = First(results).oid]
               ELSE pc' = "dev_post" /\ UNCHANGED loc
    /\ UNCHANGED <<rq, cat, batch, i, rets, writes>>

\* _get_device_by_ip: the interface the address is assigned to
DipIfGet ==
    /\ pc = "dip_if_get"
    /\ \E o \in DevOutcomes :
         LET found == {r \in cat.dif : r.id = loc.assigned}
             eff == IF o = "ok" /\ found = {} THEN "err" ELSE o
             device_id == IF eff = "ok" THEN First(found).device ELSE 0
         IN /\ log' = Append(log, Entry("dip_if_get", eff, loc.assigned, 0, device_id))
            /\ IF device_id # 0
               THEN DeviceReturn(device_id)
               ELSE pc' = "dev_post" /\ UNCHANGED loc
    /\ UNCHANGED <<rq, cat, batch, i, rets, writes>>

\* create_discovered_device: the create
DevPost ==
    /\ pc = "dev_post"
    /\ \E o \in DevOutcomes :
         LET name == DeviceName(batch[i])
             dup == \E r \in cat.dev : r.name = name /\ r.site = loc.site_id
             eff == IF o = "ok" /\ dup THEN "conflict" ELSE o
             id == NextId(cat.dev)
         IN /\ log' = Append(log, Entry("dev_post", eff, loc.site_id, loc.device_type_id, 0))
            /\ IF eff = "ok"
               THEN /\ cat' = [cat EXCEPT !.dev = @ \cup
                                 {[id |-> id, name |-> name, dtype |-> loc.device_type_id,
                                   site |-> loc.site_id]}]
                    /\ DeviceReturn(id)
               ELSE DeviceReturn(0) /\ UNCHANGED cat
    /\ UNCHANGED <<rq, batch, i, rets, writes>>

\* create_device_interface returned (its value is not looked at)
InterfaceReturn(interface_id) ==
    /\ pc' = ServiceLoop(batch[i], 1, 1)
    /\ loc' = [loc EXCEPT !.interface_id = interface_id, !.s = 1, !.p = 1]

\* create_device_interface: the lookup
DifGet ==
    /\ pc = "dif_get"
    /\ \E o \in DevOutcomes :
         LET results == {r \in cat.dif : r.device = loc.device_id /\ r.name = EthName}
             hit == IF o = "ok" /\ results # {} THEN First(results).id ELSE 0
         IN /\ log' = Append(log, Entry("dif_get", o, loc.device_id, 0, hit))
            /\ IF o = "exc" THEN InterfaceReturn(0)
               ELSE IF o = "ok" /\ results # {}
                    THEN pc' = "aip_get" /\ loc' = [loc EXCEPT !.interface_id = hit]
               ELSE pc' = "dif_post" /\ UNCHANGED loc
    /\ UNCHANGED <<rq, cat, batch, i, rets, writes>>

DifPost ==
    /\ pc = "dif_post"
    /\ \E o \in DevOutcomes :
         LET dup == \E r \in cat.dif : r.device = loc.device_id /\ r.name = EthName
             eff == IF o = "ok" /\ dup THEN "conflict" ELSE o
             id == NextId(cat.dif)
         IN /\ log' = Append(log, Entry("dif_post", eff, loc.device_id, 0, 0))
            /\ IF eff = "ok"
               THEN /\ cat' = [cat EXCEPT !.dif = @ \cup
                                 {[id |-> id, device |-> loc.device_id, name |-> EthName]}]
                    /\ pc' = "aip_get" /\ loc' = [loc EXCEPT !.interface_id = id]
               ELSE InterfaceReturn(0) /\ UNCHANGED cat
    /\ UNCHANGED <<rq, batch, i, rets, writes>>

\* _assign_ip_to_interface returned; create_device_interface returns the
\* interface id whatever the value
AssignReturn == InterfaceReturn(loc.interface_id)

\* _assign_ip_to_interface: the lookup.  With status 200 and no result ip_id
\* is never bound, and building the PATCH payload raises inside the try.
AipGet ==
    /\ pc = "aip_get"
    /\ \E o \in DevOutcomes :
         LET results == ByAddress(batch[i].ip)
             hit == IF o = "ok" /\ results # {} THEN First(results).id ELSE 0
         IN /\ log' = Append(log, Entry("aip_get", o, 0, 0, hit))
            /\ CASE o = "exc" -> AssignReturn
                 [] o = "err" -> pc' = "aip_post" /\ UNCHANGED loc
                 [] o = "ok" ->
                      IF results = {} THEN AssignReturn
                      ELSE IF First(results).oid = loc.interface_id THEN AssignReturn
                      ELSE pc' = "aip_patch" /\ loc' = [loc EXCEPT !.ip_id = hit]
    /\ UNCHANGED <<rq, cat, batch, i, rets, writes>>

\* _assign_ip_to_interface: the create, reached when the lookup's status was not 200
AipPost ==
    /\ pc = "aip_post"
    /\ \E o \in DevOutcomes :
         LET id == NextId(cat.ip)
         IN /\ log' = Append(log, Entry("aip_post", o, 0, 0, 0))
            /\ IF o = "ok"
               THEN /\ cat' = [cat EXCEPT !.ip = @ \cup
                                 {[id |-> id, addr |-> Addr(batch[i].ip, 32),
                                   otype |-> "", oid |-> 0]}]
                    /\ pc' = "aip_patch" /\ loc' = [loc EXCEPT !.ip_id = id]
               ELSE AssignReturn /\ UNCHANGED cat
    /\ UNCHANGED <<rq, batch, i, rets, writes>>

\* _assign_ip_to_interface: the interface is patched with ip_addresses: [ip_id];
\* the catalog is taken to assign that address record to the interface
AipPatch ==
    /\ pc = "aip_patch"
    /\ \E o \in DevOutcomes :
         /\ log' = Append(log, Entry("aip_patch", o, loc.interface_id, loc.ip_id, 0))
         /\ cat' = IF o = "ok"
                   THEN [cat EXCEPT !.ip = {IF r.id = loc.ip_id
                            THEN [r EXCEPT !.otype = DevIfType, !.oid = loc.interface_id]
                            ELSE r : r \in @}]
                   ELSE cat
         /\ AssignReturn
    /\ UNCHANGED <<rq, batch, i, rets, writes>>

\* create_device_service returned: the inner loop takes the next port, the
\* outer one the next service
ServiceReturn ==
    LET h == batch[i]
        p == IF loc.p < Len(h.open_ports) THEN loc.p + 1 ELSE 1
        s == IF loc.p < Len(h.open_ports) THEN loc.s ELSE loc.s + 1
    IN /\ pc' = ServiceLoop(h, s, p)
       /\ loc' = [loc EXCEPT !.s = s, !.p = p]

\* create_device_service: the lookup.  Of the service calls of a host the log
\* keeps the requests of the current one only.
SvcGet ==
    /\ pc = "svc_get"
    /\ \E o \in DevOutcomes :
         LET h == batch[i]
             name == ServiceIdentifier(h.services[loc.s], h.open_ports[loc.p])
             results == {r \in cat.svc : r.device = loc.device_id /\ r.name = name}
             hit == IF o = "ok" /\ results # {} THEN First(results).id ELSE 0
         IN /\ log' = Append(SelectSeq(log, LAMBDA e : e.st \notin {"svc_get", "svc_post"}),
                             Entry("svc_get", o, loc.device_id, 0, hit))
            /\ IF o = "exc" \/ (o = "ok" /\ results # {})
               THEN ServiceReturn
               ELSE pc' = "svc_post" /\ UNCHANGED loc
    /\ UNCHANGED <<rq, cat, batch, i, rets, writes>>

SvcPost ==
    /\ pc = "svc_post"
    /\ \E o \in DevOutcomes :
         LET h == batch[i]
             port == h.open_ports[loc.p]
             name == ServiceIdentifier(h.services[loc.s], port)
         IN /\ log' = Append(log, Entry("svc_post", o, loc.device_id, 0, 0))
            /\ cat' = IF o = "ok"
                      THEN [cat EXCEPT !.svc = @ \cup
                              {[id |-> NextId(cat.svc), device |-> loc.device_id,
                                name |-> name, ports |-> <<port>>]}]
                      ELSE cat
            /\ ServiceReturn
    /\ UNCHANGED <<rq, batch, i, rets, writes>>

DevStages == {"dev_get", "dip_get", "dip_if_get", "dev_post", "dif_get", "dif_post",
              "aip_get", "aip_post", "aip_patch", "svc_get", "svc_post"}

\* the end of one iteration of `for host_info in discovered_hosts`: processed
\* counts the host when a device id was obtained
HostLoop ==
    /\ pc = "host_ret"
    /\ rets' = Append(rets, [ret |-> loc.device_id # 0,
                             clean |-> \A k \in Of(DevStages) : log[k].out = "ok"])
    /\ i' = i + 1
    /\ pc' = NextHost(i + 1)
    /\ loc' = TakeHost(cat, i + 1,
                       [loc EXCEPT !.processed = @ + (IF loc.device_id # 0 THEN 1 ELSE 0)])
    /\ log' = <<>>
    /\ UNCHANGED <<rq, cat, batch, writes>>

\* another client of the catalog creates a device of a name the pass looks
\* for, between the lookups of create_discovered_device and its create
DevOtherWriter ==
    /\ pc = "dev_post"
    /\ writes < MaxWrites
    /\ writes' = writes + 1
    /\ \E h \in HostInfos, st \in cat.site :
         /\ ~\E r \in cat.dev : r.name = DeviceName(h)
         /\ cat' = [cat EXCEPT !.dev = @ \cup
                      {[id |-> NextId(cat.dev), name |-> DeviceName(h),
                        dtype |-> loc.device_type_id, site |-> st.id]}]
    /\ UNCHANGED <<rq, batch, pc, i, loc, log, rets>>

NextDev ==
    \/ SiteGet \/ SitePost \/ DtGet \/ MfGet \/ MfPost \/ DtPost \/ StartHosts
    \/ DevGet \/ DipGet \/ DipIfGet \/ DevPost
    \/ DifGet \/ DifPost \/ AipGet \/ AipPost \/ AipPatch
    \/ SvcGet \/ SvcPost
    \/ HostLoop \/ DevOtherWriter

SpecDev == InitDev /\ [][NextDev]_vars

(***************************************************************************)
(* Properties                                                              *)
(***************************************************************************)
InVm == pc \in VmStages \cup {"vm_ret"}
InHost == pc \in DevStages \cup {"host_ret"}

\* C1: a VM that was in the catalog with its interface, MAC binding, address
\* and primary address, all as desired, when the pass took it, gets no
\* mutating request (no POST, no PATCH) from get_or_create_vm.
C1_ZeroMutatingCalls ==
    (InVm /\ loc.insync0) => \A k \in Of(VmStages) : Method(log[k].st) = "GET"

\* C2: when no device had the host's name and the host's address was assigned
\* to an interface of a device, create_discovered_device issues no device
\* create and returns that device.
C2_FoundByAddress ==
    (InHost /\ loc.owner0 # 0) =>
        /\ Of({"dev_post"}) = {}
        /\ (pc \in {"dif_get", "dif_post", "aip_get", "aip_post", "aip_patch",
                    "svc_get", "svc_post", "host_ret"} => loc.device_id = loc.owner0)

\* C3: get_or_create_vm issues no VM create for a VM whose address was
\* assigned to an interface of a VM of the catalog when the pass took it (the
\* lookup by address assignment would have found that VM).
C3_NoCreateWhenAddressKnown ==
    (InVm /\ loc.ipvm0 # 0) => Of({"vm_post"}) = {}

\* C4: when the create of a VM or of its interface was answered with a
\* conflict, get_or_create_vm does not report the VM as failed and has the
\* identifier of the record that exists.
C4_ConflictIsRequeried ==
    pc = "vm_ret" =>
        /\ ((\E k \in Of({"vm_post"}) : log[k].out = "conflict")
              => loc.ret /\ loc.vm_id # 0)
        /\ ((\E k \in Of({"if_post"}) : log[k].out = "conflict")
              => loc.iface_id # 0)

\* C5: for a discovered device whose interface stage returned no interface
\* id, no address or service request is issued.
C5_NothingAfterInterfaceFailure ==
    pc \in {"aip_get", "aip_post", "aip_patch", "svc_get", "svc_post"}
        => loc.interface_id # 0

\* the lookup that has to precede a create
LookupOf(st) ==
    CASE st = "cl_post" -> "cl_get"     [] st = "vm_post" -> "vm_get"
      [] st = "if_post" -> "if_get"     [] st = "mac_post" -> "mac_get"
      [] st = "ip_post" -> "ip_get"     [] st = "site_post" -> "site_get"
      [] st = "mf_post" -> "mf_get"     [] st = "dt_post" -> "dt_get"
      [] st = "dev_post" -> "dev_get"   [] st = "dif_post" -> "dif_get"
      [] st = "aip_post" -> "aip_get"   [] st = "svc_post" -> "svc_get"

\* C6: every create was preceded, for the same entity, by a lookup that
\* succeeded and reported no match.
C6_NoBlindCreate ==
    \A k \in 1..Len(log) :
        Method(log[k].st) = "POST" =>
            \E j \in 1..(k - 1) : /\ log[j].st = LookupOf(log[k].st)
                                  /\ log[j].out = "ok"
                                  /\ log[j].hit = 0

\* C7: when the lookup of the VM, or of its interface, returned a record, no
\* create is issued for it and every later request of the VM that names the
\* VM, or the interface, names the record found.
C7_NeverRecreate ==
    \A k \in 1..Len(log) :
        /\ (log[k].st = "vm_get" /\ log[k].hit # 0) =>
              /\ Of({"vm_post"}) = {}
              /\ \A j \in Of({"vm_patch_status", "vm_patch_res", "if_get", "if_post",
                               "vm_patch_pip"}) : log[j].ref = log[k].hit
        /\ (log[k].st = "if_get" /\ log[k].hit # 0) =>
              /\ Of({"if_post"}) = {}
              /\ \A j \in Of({"mac_get", "mac_post", "if_get_id", "if_patch_mac"}) :
                     log[j].ref = log[k].hit
              /\ \A j \in Of({"ip_patch"}) : log[j].val = log[k].hit

\* a VM and its interface were both found, and the pass went on to the last
\* stage of the VM
C7_Witness ==
    /\ \E k \in Of({"vm_get"}) : log[k].hit # 0
    /\ \E k \in Of({"if_get"}) : log[k].hit # 0
    /\ Of({"mac_get"}) # {}
    /\ Of({"vm_patch_pip"}) # {}

\* C8: the count main reports is the number of VMs all of whose requests
\* succeeded.
C8_CountIsFullyReconciled ==
    pc = "done" => Synced = Cardinality({k \in 1..Len(rets) : rets[k].clean})

\* C9: whatever the catalog answers for one VM, the loop over the batch
\* is not ended by it.
C9_BatchNotAborted == ~(pc = "crashed" /\ i >= 1)

\* C10: make_api_request starts a further attempt only after a timeout or a
\* connection error, and a response, whatever its status, is the last attempt
\* and the value returned.
C10_RetryOnlyOnTransient ==
    /\ \A k \in 1..(Len(rq.outs) - 1) : rq.outs[k].kind \in {"timeout", "connerr"}
    /\ \A k \in 1..Len(rq.outs) :
          rq.outs[k].kind = "response" => k = Len(rq.outs) /\ rq.ret = rq.outs[k]

\* a response with an error status came on a later attempt and was returned
C10_Witness ==
    /\ Len(rq.outs) >= 2
    /\ Last(rq.outs) = Resp(500)
    /\ rq.ret = Resp(500)

\* the attempt budget, in every state of a call
C11_Budget ==
    /\ rq.retry_count >= 1 => Len(rq.outs) <= rq.retry_count
    /\ (rq.retry_count >= 1 /\ rq.ret # Pending
          /\ \A k \in 1..Len(rq.outs) : rq.outs[k].kind \in {"timeout", "connerr"})
         => Len(rq.outs) = rq.retry_count
    /\ \A k \in 1..Len(rq.used) : rq.used[k] = rq.timeout

\* C11: with retry_count >= 1 make_api_request makes at most retry_count
\* attempts, exactly retry_count when all of them end in a timeout or a
\* connection error, every attempt with the timeout it was called with, and
\* the call returns.
C11_FixedBudgetAndReturn == []C11_Budget /\ <>(rq.ret # Pending)

\* three attempts, all timeouts or connection errors, then the return
C11_Witness ==
    /\ rq.retry_count = MaxRetry
    /\ Len(rq.outs) = MaxRetry
    /\ \A k \in 1..Len(rq.outs) : rq.outs[k].kind \in {"timeout", "connerr"}
    /\ rq.used = [k \in 1..MaxRetry |-> rq.timeout]
    /\ rq.ret = None

\* C12: the value returned after an attempt raised an exception that is
\* neither a timeout nor a connection error differs from the value returned
\* when the attempts are used up on timeouts and connection errors.
C12_FatalDiffersFromTransient ==
    (rq.ret # Pending /\ rq.outs # <<>> /\ Last(rq.outs).kind = "other")
        => rq.ret # AttemptReturn(Raised("timeout"), rq.retry_count, rq.retry_count)

\* C13: no run ends because one request of the pass raised (a timeout or a
\* connection error included): every request is retried by make_api_request,
\* which turns the raise into a return value.
C13_NoRunEndsOnOneRaise ==
    ~(pc = "crashed" /\ log # <<>> /\ Last(log).out = "fail")

(***************************************************************************)
(* port_scanner.PortScanner: scan_hosts, scan_ports, scan_port             *)
(*   batch  the hosts argument: host -> list of ports                      *)
(*   loc    max_threads, the state of each host task and of each probe,   *)
(*          and the results dict of each scan_ports call                   *)
(*   rets   the results dict of scan_hosts                                 *)
(***************************************************************************)
MaxThreads == 2

ScanHosts == {"hA", "hB"}
\* port lists a caller passes: empty, one port, two ports, one port that is no
\* TCP port number, the same port twice
PortLists == {<<>>, <<22>>, <<22, 80>>, <<80, 70000>>, <<22, 22>>}
ValidPort(port) == port \in 0..65535

\* how the connection attempt of one scan_port call ends:
\*   open      connect_ex returned 0
\*   closed    connect_ex returned an error number (refused, timed out,
\*             unreachable)
\*   oserror   socket() or connect_ex raised socket.gaierror / socket.error
\*   overflow  connect_ex raised OverflowError: the port is outside 0..65535
ProbeOutcomes(port) ==
    IF ValidPort(port) THEN {"open", "closed", "oserror"} ELSE {"overflow"}

\* a variant of the comparison that reports every returned probe as open
IsOpenAlways(o) == o \in {"open", "closed"}
\* result == 0
IsOpen(o) == o = "open"

\* scan_port: the value returned, or "raise" when the exception is not caught
scan_port(o) ==
    IF o \in {"open", "closed"} THEN (IF IsOpen(o) THEN "True" ELSE "False")
    ELSE IF o = "oserror" THEN "False"
    ELSE "raise"

EmptyDict == [k \in {} |-> FALSE]
Put(d, k, v) == [x \in DOMAIN d \cup {k} |-> IF x = k THEN v ELSE d[x]]
Range(seq) == {seq[k] : k \in DOMAIN seq}

\* scan_ports, the body of its as_completed loop: results[port] = is_open, or
\* False when future.result() raised
Collect(results, port, r) == Put(results, port, r = "True")

\* max_workers of the pool scan_ports creates
PortWorkersOnePerPort(max_threads, ports) == Len(ports)
PortWorkers(max_threads, ports) == Min({max_threads, Len(ports)})

InitScan ==
    /\ rq = RqIdle /\ cat = <<>> /\ i = 0 /\ log = <<>> /\ writes = 0
    /\ \E H \in SUBSET ScanHosts : batch \in [H -> PortLists]
    /\ \E n \in 1..MaxThreads :
          loc = [max_threads |-> n,
                 task |-> [h \in DOMAIN batch |-> "queued"],
                 probe |-> [h \in DOMAIN batch |->
                              [k \in DOMAIN batch[h] |-> "queued"]],
                 res |-> [h \in DOMAIN batch |-> EmptyDict]]
    /\ rets = EmptyDict
    /\ pc = "scan_hosts"

TasksRunning == {h \in DOMAIN batch : loc.task[h] = "running"}
InFlight(h) == {k \in DOMAIN batch[h] : loc.probe[h][k] = "inflight"}
Finished(h) ==
    \A k \in DOMAIN batch[h] : loc.probe[h][k] \notin {"queued", "inflight"}

\* a worker of scan_hosts' pool takes the scan_ports task of host h; the
\* ThreadPoolExecutor of scan_ports is created, which raises ValueError when
\* max_workers is 0
HostStart(h) ==
    /\ pc = "scan_hosts"
    /\ loc.task[h] = "queued"
    /\ Cardinality(TasksRunning) < loc.max_threads
    /\ loc' = [loc EXCEPT !.task[h] =
                  IF PortWorkers(loc.max_threads, batch[h]) = 0
                  THEN "raised" ELSE "running"]
    /\ UNCHANGED <<rq, cat, batch, pc, i, log, rets, writes>>

\* a worker of scan_ports' pool of host h takes the scan_port call number k
\* (ProbeStartSharedPool: the variant in which the probes run in the pool
\* of scan_hosts, whose workers the scan_ports tasks occupy)
ProbeStartSharedPool(h, k) ==
    /\ pc = "scan_hosts"
    /\ loc.task[h] = "running"
    /\ loc.probe[h][k] = "queued"
    /\ Cardinality(TasksRunning)
         + Cardinality({hk \in UNION {{<<g, j>> : j \in DOMAIN batch[g]} : g \in DOMAIN batch} :
                          loc.probe[hk[1]][hk[2]] = "inflight"}) < loc.max_threads
    /\ loc' = [loc EXCEPT !.probe[h][k] = "inflight"]
    /\ UNCHANGED <<rq, cat, batch, pc, i, log, rets, writes>>
ProbeStart(h, k) ==
    /\ pc = "scan_hosts"
    /\ loc.task[h] = "running"
    /\ loc.probe[h][k] = "queued"
    /\ Cardinality(InFlight(h)) < PortWorkers(loc.max_threads, batch[h])
    /\ loc' = [loc EXCEPT !.probe[h][k] = "inflight"]
    /\ UNCHANGED <<rq, cat, batch, pc, i, log, rets, writes>>

\* the scan_port call ends and scan_ports' as_completed loop stores its result
ProbeEnd(h, k) ==
    /\ pc = "scan_hosts"
    /\ loc.probe[h][k] = "inflight"
    /\ \E o \in ProbeOutcomes(batch[h][k]) :
          loc' = [loc EXCEPT !.probe[h][k] = o,
                             !.res[h] = Collect(@, batch[h][k], scan_port(o))]
    /\ UNCHANGED <<rq, cat, batch, pc, i, log, rets, writes>>

\* scan_ports of host h returns, or has raised; scan_hosts' as_completed loop
\* stores host_results, or {} when future.result() raised
HostEnd(h) ==
    /\ pc = "scan_hosts"
    /\ h \notin DOMAIN rets
    /\ \/ loc.task[h] = "running" /\ Finished(h)
          /\ rets' = Put(rets, h, loc.res[h])
          /\ loc' = [loc EXCEPT !.task[h] = "done"]
       \/ loc.task[h] = "raised"
          /\ rets' = Put(rets, h, EmptyDict)
          /\ UNCHANGED loc
    /\ UNCHANGED <<rq, cat, batch, pc, i, log, writes>>

\* return results
ScanReturn ==
    /\ pc = "scan_hosts"
    /\ DOMAIN rets = DOMAIN batch
    /\ pc' = "done"
    /\ UNCHANGED <<rq, cat, batch, i, loc, log, rets, writes>>

NextScan ==
    \/ \E h \in DOMAIN batch : HostStart(h)
    \/ \E h \in DOMAIN batch : \E k \in DOMAIN batch[h] : ProbeStart(h, k)
    \/ \E h \in DOMAIN batch : \E k \in DOMAIN batch[h] : ProbeEnd(h, k)
    \/ \E h \in DOMAIN batch : HostEnd(h)
    \/ ScanReturn

SpecScan == InitScan /\ [][NextScan]_vars

\* C14: every scan_ports call returns, and the keys of the mapping it returns
\* are exactly the requested ports, with true only for a port a probe found
\* open.
C14_ScanPortsReturnsAllPorts ==
    \A h \in DOMAIN batch :
        loc.task[h] \in {"done", "raised"} =>
            /\ loc.task[h] = "done"
            /\ DOMAIN loc.res[h] = Range(batch[h])
            /\ \A port \in DOMAIN loc.res[h] :
                   loc.res[h][port] =>
                       \E k \in DOMAIN batch[h] :
                           batch[h][k] = port /\ loc.probe[h][k] = "open"

\* C15: the mapping scan_hosts returns has every requested host, each with
\* every one of its requested ports, the value of a port being that of a probe
\* of that host on that port: all false for a host none of whose probes found
\* a port open, whatever the probes of the other hosts did.
C15_ScanHostsCompleteAndIsolated ==
    pc = "done" =>
        /\ DOMAIN rets = DOMAIN batch
        /\ \A h \in DOMAIN batch :
              /\ DOMAIN rets[h] = Range(batch[h])
              /\ \A port \in DOMAIN rets[h] :
                     \E k \in DOMAIN batch[h] :
                         /\ batch[h][k] = port
                         /\ rets[h][port] = (loc.probe[h][k] = "open")

\* two hosts with two ports each: every probe of hB failed, and hA has its
\* open port reported open
C15_Witness ==
    /\ pc = "done"
    /\ DOMAIN batch = ScanHosts
    /\ batch["hA"] = <<22, 80>> /\ batch["hB"] = <<22, 80>>
    /\ loc.probe["hB"] = <<"closed", "oserror">>
    /\ loc.probe["hA"] = <<"open", "closed">>
    /\ rets["hA"][22] /\ ~rets["hA"][80]
    /\ ~rets["hB"][22] /\ ~rets["hB"][80]

\* C16: the number of scan_port calls in flight, over all hosts, never
\* exceeds max_threads.
C16_GlobalCeiling ==
    pc = "scan_hosts" =>
        Cardinality({hk \in UNION {{<<h, k>> : k \in DOMAIN batch[h]} : h \in DOMAIN batch} :
                        loc.probe[hk[1]][hk[2]] = "inflight"}) <= loc.max_threads

\* C17: a scan_port call that has ended has returned, and has returned true
\* only when the connection was established.
C17_ProbeTotal ==
    pc \in {"scan_hosts", "done"} =>
        \A h \in DOMAIN batch : \A k \in DOMAIN batch[h] :
            loc.probe[h][k] \notin {"queued", "inflight"} =>
                /\ scan_port(loc.probe[h][k]) # "raise"
                /\ (scan_port(loc.probe[h][k]) = "True" => loc.probe[h][k] = "open")

(***************************************************************************)
(* network_scanner.NetworkScanner: scan_network, ping_host                 *)
(*   batch  the hosts of the network argument, as net.hosts() lists them   *)
(*   cat    how a connection attempt to each host and liveness port ends   *)
(*   loc    max_threads, and per host the state of its ping_host call      *)
(*   rets   active_hosts                                                   *)
(***************************************************************************)
\* the ports ping_host connects to, in its order
LivePorts == <<22, 80, 443>>
\* one connection attempt of ping_host: connect_ex returned 0, connect_ex
\* returned an error number, or socket() / connect_ex raised
PingOutcomes == {"open", "closed", "raised"}

Networks == {"10.0.0.0/30", "10.0.0.4/31", "10.0.0.9/32", "bogus"}
\* list(ipaddress.ip_network(network, strict=False).hosts()); <<>> stands for
\* the ValueError of a string that is no network, which returns []
NetHosts(network) ==
    CASE network = "10.0.0.0/30" -> <<"10.0.0.1", "10.0.0.2">>
      [] network = "10.0.0.4/31" -> <<"10.0.0.4", "10.0.0.5">>
      [] network = "10.0.0.9/32" -> <<"10.0.0.9">>
      [] OTHER -> <<>>

InitNet ==
    /\ rq = RqIdle /\ i = 0 /\ log = <<>> /\ writes = 0
    /\ \E network \in Networks : batch = NetHosts(network)
    /\ cat \in [Range(batch) -> [Range(LivePorts) -> PingOutcomes]]
    /\ \E n \in 1..MaxThreads :
          loc = [max_threads |-> n,
                 task |-> [ip \in Range(batch) |-> "queued"],
                 step |-> [ip \in Range(batch) |-> 1]]
    /\ rets = <<>>
    /\ pc = "scan_network"

\* a worker of scan_network's pool takes the ping_host call of ip
PingStart(ip) ==
    /\ pc = "scan_network"
    /\ loc.task[ip] = "queued"
    /\ Cardinality({q \in Range(batch) : loc.task[q] = "running"}) < loc.max_threads
    /\ loc' = [loc EXCEPT !.task[ip] = "running"]
    /\ UNCHANGED <<rq, cat, batch, pc, i, log, rets, writes>>

\* ping_host: what it returns once the attempt on port number k has ended in
\* o ("next": it goes on to the next port)
PingAfter(o, k) ==
    IF o = "raised" THEN "False"
    ELSE IF o = "open" THEN "True"
    ELSE IF k = Len(LivePorts) THEN "False" ELSE "next"

\* ping_host of ip makes its next connection attempt; when the call returns,
\* scan_network's as_completed loop appends ip if the result is true
PingProbe(ip) ==
    /\ pc = "scan_network"
    /\ loc.task[ip] = "running"
    /\ LET k == loc.step[ip]
           r == PingAfter(cat[ip][LivePorts[k]], k)
       IN IF r = "next"
          THEN /\ loc' = [loc EXCEPT !.step[ip] = k + 1]
               /\ UNCHANGED rets
          ELSE /\ loc' = [loc EXCEPT !.task[ip] = r]
               /\ rets' = IF r = "True" THEN Append(rets, ip) ELSE rets
    /\ UNCHANGED <<rq, cat, batch, pc, i, log, writes>>

\* return active_hosts
NetReturn ==
    /\ pc = "scan_network"
    /\ \A ip \in Range(batch) : loc.task[ip] \in {"True", "False"}
    /\ pc' = "done"
    /\ UNCHANGED <<rq, cat, batch, i, loc, log, rets, writes>>

NextNet ==
    \/ \E ip \in Range(batch) : PingStart(ip)
    \/ \E ip \in Range(batch) : PingProbe(ip)
    \/ NetReturn

SpecNet == InitNet /\ [][NextNet]_vars

\* C18: ping_host reports a host live exactly when a connection attempt to
\* one of the ports 22, 80 and 443 of the host is answered, and scan_network
\* returns exactly the hosts of the network ping_host reported live.
C18_LiveIffAnyPortOpen ==
    /\ \A ip \in Range(batch) :
          loc.task[ip] \in {"True", "False"} =>
              (loc.task[ip] = "True"
                  <=> \E k \in DOMAIN LivePorts : cat[ip][LivePorts[k]] = "open")
    /\ pc = "done" =>
          /\ Range(rets) = {ip \in Range(batch) : loc.task[ip] = "True"}
          /\ Len(rets) = Cardinality(Range(rets))

(***************************************************************************)
(* netbox-sync.parse_ports_from_string                                     *)
(*   batch  ports_str.split(','): the parts of the port string            *)
(*   rets   the list returned                                              *)
(***************************************************************************)
MaxParts == 4

\* parts of a port string: single ports (one with a blank before it),
\* ranges, a range whose ends are swapped, and parts that are no port
PartStrings == {"22", "80", " 443", "3000-3002", "80-80", "3002-3000",
                "", "x", "-5", "1-2-3"}
\* part.strip()
strip(part) == IF part = " 443" THEN "443" ELSE part
\* '-' in part
HasDash(part) == part \in {"3000-3002", "80-80", "3002-3000", "-5", "1-2-3"}
\* part.split('-')
SplitDash(part) ==
    CASE part = "3000-3002" -> <<"3000", "3002">>
      [] part = "80-80" -> <<"80", "80">>
      [] part = "3002-3000" -> <<"3002", "3000">>
      [] part = "-5" -> <<"", "5">>
      [] part = "1-2-3" -> <<"1", "2", "3">>
      [] OTHER -> <<part>>
\* int(s) returns (it raises ValueError otherwise)
IsInt(s) == s \in {"1", "2", "3", "5", "22", "80", "443", "3000", "3002"}
int(s) ==
    CASE s = "1" -> 1 [] s = "2" -> 2 [] s = "3" -> 3
      [] s = "5" -> 5 [] s = "22" -> 22 [] s = "80" -> 80 [] s = "443" -> 443
      [] s = "3000" -> 3000 [] s = "3002" -> 3002

\* range(start, end) in place of range(start, end + 1)
RangePortsExclusive(start, end) == start..(end - 1)
\* range(int(start), int(end) + 1)
RangePorts(start, end) == start..end

\* the part raises inside the try block: start, end = ... does not unpack two
\* values, or an int() raises
PartRaises(part) ==
    IF HasDash(strip(part))
    THEN \/ Len(SplitDash(strip(part))) # 2
         \/ \E k \in DOMAIN SplitDash(strip(part)) : ~IsInt(SplitDash(strip(part))[k])
    ELSE ~IsInt(strip(part))
\* the ports the part adds to the list
PartPorts(part) ==
    IF HasDash(strip(part))
    THEN RangePorts(int(SplitDash(strip(part))[1]), int(SplitDash(strip(part))[2]))
    ELSE {int(strip(part))}

\* sorted(list(set(ports)))
RECURSIVE sorted(_)
sorted(S) == IF S = {} THEN <<>> ELSE <<Min(S)>> \o sorted(S \ {Min(S)})

DefaultPorts == <<22, 80, 443>>

\* a part that raises stands for the default ports and the parts that parse are kept
parse_ports_from_stringKeepsParsed(parts) ==
    sorted(UNION {IF PartRaises(parts[k]) THEN {22, 80, 443} ELSE PartPorts(parts[k])
                    : k \in DOMAIN parts})
\* the except clause covers the whole loop
parse_ports_from_string(parts) ==
    IF \E k \in DOMAIN parts : PartRaises(parts[k]) THEN DefaultPorts
    ELSE sorted(UNION {PartPorts(parts[k]) : k \in DOMAIN parts})

InitParse ==
    /\ rq = RqIdle /\ cat = <<>> /\ i = 0 /\ loc = <<>> /\ log = <<>> /\ writes = 0
    /\ \E n \in 1..MaxParts : batch \in [1..n -> PartStrings]
    /\ rets = <<>>
    /\ pc = "parse"

Parse ==
    /\ pc = "parse"
    /\ rets' = parse_ports_from_string(batch)
    /\ pc' = "done"
    /\ UNCHANGED <<rq, cat, batch, i, loc, log, writes>>

NextParse == Parse

SpecParse == InitParse /\ [][NextParse]_vars

\* a well-formed part: a single port, or a range a-b with a <= b
WellFormedPart(part) == part \in {"22", "80", " 443", "3000-3002", "80-80"}
\* the ports a well-formed part stands for
Denotes(part) ==
    CASE part = "22" -> {22} [] part = "80" -> {80} [] part = " 443" -> {443}
      [] part = "3000-3002" -> {3000, 3001, 3002} [] part = "80-80" -> {80}

\* C19: for a port string all of whose parts are single ports or ranges a-b,
\* parse_ports_from_string returns a strictly ascending list whose elements
\* are exactly the single ports and the integers of each range, ends included.
C19_ParsedPortsSortedExact ==
    (pc = "done" /\ \A k \in DOMAIN batch : WellFormedPart(batch[k])) =>
        /\ \A j, k \in DOMAIN rets : j < k => rets[j] < rets[k]
        /\ Range(rets) = UNION {Denotes(batch[k]) : k \in DOMAIN batch}

\* "22,80, 443,3000-3002" parsed
C19_Witness ==
    /\ pc = "done"
    /\ batch = <<"22", "80", " 443", "3000-3002">>
    /\ rets = <<22, 80, 443, 3000, 3001, 3002>>

(***************************************************************************)
(* netbox-sync: fetch_arp_map, get_vm_mac, get_ip_from_mac                 *)
(*   batch  the rows of the ARP table the firewall returns                 *)
(*   loc    mac, the MAC asked for; arp_map, the map built from the rows   *)
(*   rets   the value of get_ip_from_mac ("" for None)                     *)
(***************************************************************************)
MaxRows == 3

NoMac == ""
NoIp == ""
ArpRow(ip, ipaddr, mac, macaddr) ==
    [ip |-> ip, ipaddr |-> ipaddr, mac |-> mac, macaddr |-> macaddr]
\* rows under either pair of keys, MACs in lower, upper and mixed case, a row
\* without address and a row without MAC
ArpRows == {ArpRow("10.0.0.5", "", "aa:bb:cc:dd:ee:01", ""),
            ArpRow("", "10.0.0.6", "", "AA:BB:CC:DD:EE:01"),
            ArpRow("10.0.0.7", "", "Aa:Bb:Cc:Dd:Ee:02", ""),
            ArpRow("", "", "aa:bb:cc:dd:ee:02", ""),
            ArpRow("10.0.0.8", "", "", "")}
\* row.get('ip') or row.get('ipaddr')
RowIp(row) == IF row.ip # "" THEN row.ip ELSE row.ipaddr
\* row.get('mac') or row.get('macaddr')
RowMac(row) == IF row.mac # "" THEN row.mac ELSE row.macaddr

\* a variant that leaves the letters as they are
lowerKeepsCase(x) == x
\* str.lower() on the MAC strings of the model
lower(x) ==
    CASE x \in {"aa:bb:cc:dd:ee:01", "AA:BB:CC:DD:EE:01"} -> "aa:bb:cc:dd:ee:01"
      [] x \in {"aa:bb:cc:dd:ee:02", "Aa:Bb:Cc:Dd:Ee:02"} -> "aa:bb:cc:dd:ee:02"
      [] x \in {"aa:bb:cc:dd:ee:03", "AA:BB:CC:DD:EE:03"} -> "aa:bb:cc:dd:ee:03"
      [] OTHER -> x

\* the net0 entry of a VM or container config, as the list of its
\* comma-separated parts, each split at its first '=' (<<>>: no net0 key)
NetConfigs == {<<>>,
               <<<<"virtio", "AA:BB:CC:DD:EE:01">>, <<"bridge", "vmbr0">>>>,
               <<<<"name", "eth0">>, <<"bridge", "vmbr0">>,
                 <<"hwaddr", "AA:BB:CC:DD:EE:03">>>>,
               <<<<"bridge", "vmbr0">>, <<"firewall", "1">>>>}
\* len(mac_candidate) == 17 and mac_candidate.count(':') == 5
LooksLikeMac(x) ==
    x \in {"aa:bb:cc:dd:ee:01", "AA:BB:CC:DD:EE:01", "aa:bb:cc:dd:ee:02",
           "Aa:Bb:Cc:Dd:Ee:02", "aa:bb:cc:dd:ee:03", "AA:BB:CC:DD:EE:03"}
RECURSIVE get_vm_mac(_)
get_vm_mac(parts) ==
    IF parts = <<>> THEN NoMac
    ELSE IF LooksLikeMac(Head(parts)[2]) THEN lower(Head(parts)[2])
    ELSE get_vm_mac(Tail(parts))

\* the MAC strings get_ip_from_mac is called with
QueryMacs == {NoMac, "AA:BB:CC:DD:EE:01", "aa:bb:cc:dd:ee:01",
              "Aa:Bb:Cc:Dd:Ee:02", "aa:bb:cc:dd:ee:03"}
                 \cup {get_vm_mac(c) : c \in NetConfigs}

\* fetch_arp_map: the loop over the rows
RECURSIVE BuildArpMap(_, _)
BuildArpMap(rows, arp_map) ==
    IF rows = <<>> THEN arp_map
    ELSE BuildArpMap(Tail(rows),
                     IF RowIp(Head(rows)) # "" /\ RowMac(Head(rows)) # ""
                     THEN Put(arp_map, lower(RowMac(Head(rows))), RowIp(Head(rows)))
                     ELSE arp_map)

get_ip_from_mac(mac, arp_map) ==
    IF mac = NoMac \/ DOMAIN arp_map = {} THEN NoIp
    ELSE IF lower(mac) \in DOMAIN arp_map THEN arp_map[lower(mac)] ELSE NoIp

InitArp ==
    /\ rq = RqIdle /\ cat = <<>> /\ i = 0 /\ log = <<>> /\ writes = 0
    /\ \E n \in 0..MaxRows : batch \in [1..n -> ArpRows]
    /\ \E q \in QueryMacs : loc = [mac |-> q, arp_map |-> EmptyDict, fetched |-> "no"]
    /\ rets = NoIp
    /\ pc = "fetch_arp_map"

\* fetch_arp_map: the request succeeds and the map is built, or it raises (or
\* no firewall session is configured) and the map is {}
FetchArp ==
    /\ pc = "fetch_arp_map"
    /\ \E o \in {"ok", "raise"} :
          loc' = [loc EXCEPT !.fetched = o,
                             !.arp_map = IF o = "ok" THEN BuildArpMap(batch, EmptyDict)
                                         ELSE EmptyDict]
    /\ pc' = "get_ip_from_mac"
    /\ UNCHANGED <<rq, cat, batch, i, log, rets, writes>>

GetIp ==
    /\ pc = "get_ip_from_mac"
    /\ rets' = get_ip_from_mac(loc.mac, loc.arp_map)
    /\ pc' = "done"
    /\ UNCHANGED <<rq, cat, batch, i, loc, log, writes>>

NextArp == FetchArp \/ GetIp

SpecArp == InitArp /\ [][NextArp]_vars

\* the MAC strings that differ in letter case only
SameLetters ==
    {{"aa:bb:cc:dd:ee:01", "AA:BB:CC:DD:EE:01"},
     {"aa:bb:cc:dd:ee:02", "Aa:Bb:Cc:Dd:Ee:02"},
     {"aa:bb:cc:dd:ee:03", "AA:BB:CC:DD:EE:03"}}
EqualIgnoringCase(x, y) == \E c \in SameLetters : x \in c /\ y \in c
\* the rows of the fetched table that have an address and the MAC asked for
MatchingRows ==
    {k \in DOMAIN batch : /\ loc.fetched = "ok"
                          /\ RowIp(batch[k]) # ""
                          /\ EqualIgnoringCase(RowMac(batch[k]), loc.mac)}

\* C20: get_ip_from_mac returns the address of the row of the fetched ARP
\* table whose MAC is the MAC asked for up to letter case (of the last such
\* row when there are several), and no address when there is no such row.
C20_MacMatchIgnoresCase ==
    pc = "done" =>
        IF MatchingRows = {} THEN rets = NoIp
        ELSE rets = RowIp(batch[Max(MatchingRows)])

\* the table has the MAC in lower case, the MAC asked for is in upper case
C20_Witness ==
    /\ pc = "done"
    /\ batch = <<ArpRow("10.0.0.5", "", "aa:bb:cc:dd:ee:01", "")>>
    /\ loc.mac = "AA:BB:CC:DD:EE:01"
    /\ rets = "10.0.0.5"

(***************************************************************************)
(* nb_services.NetBoxServices: sync_services, get_or_create_service,       *)
(* _create_service                                                         *)
(*   batch  open_ports                                                     *)
(*   cat    the IP address and service records of the catalog              *)
(*   loc    ip_id, the index of the port in work, created_count, the       *)
(*          value returned                                                 *)
(***************************************************************************)
MaxOpenPorts == 2

SvcAddr == Addr("10.0.0.5", 32)
\* the name _create_service gives the service of a TCP port
AutoName(port) == IF port = 22 THEN "auto-tcp-22" ELSE "auto-tcp-80"
SvcIpCat == [EmptyCat EXCEPT !.ip = {[id |-> 1, addr |-> SvcAddr, otype |-> VmIfType, oid |-> 1]}]
\* the address has the service of port 22 bound to it
SvcKnownCat ==
    [SvcIpCat EXCEPT !.svc = {[id |-> 1, name |-> AutoName(22), port |-> 22,
                               protocol |-> "TCP", ip |-> 1]}]
SvcStartCats == {EmptyCat, SvcIpCat, SvcKnownCat}

InitSvc ==
    /\ rq = RqIdle /\ i = 0 /\ log = <<>> /\ rets = <<>> /\ writes = 0
    /\ cat \in SvcStartCats
    /\ \E n \in 0..MaxOpenPorts : batch \in [1..n -> {22, 80}]
    /\ loc = [ip_id |-> 0, k |-> 0, created_count |-> 0, ret |-> "pending"]
    /\ pc = "nsvc_ip"

\* sync_services: the loop `for port in open_ports` goes to port number k, or
\* ends with return True
SvcPortLoop(k) == IF k > Len(batch) THEN "done" ELSE "nsvc_get"
SvcLoopRet(k) == IF k > Len(batch) THEN "True" ELSE "pending"

\* sync_services: netbox_api.ipam.ip_addresses.get(address=ip_address)
SvcIpGet ==
    /\ pc = "nsvc_ip"
    /\ \E o \in {"exc", "ok"} :
         LET found == {r \in cat.ip : r.addr.host = SvcAddr.host}
         IN IF o = "exc" \/ found = {}
            THEN /\ loc' = [loc EXCEPT !.ret = "False"]
                 /\ pc' = "done"
            ELSE /\ loc' = [loc EXCEPT !.ip_id = First(found).id, !.k = 1,
                                       !.ret = SvcLoopRet(1)]
                 /\ pc' = SvcPortLoop(1)
    /\ UNCHANGED <<rq, cat, batch, i, log, rets, writes>>

\* get_or_create_service: a service of the listing has this port and protocol
ServiceExists(existing, port) ==
    \E sv \in existing : sv.port = port /\ sv.protocol = "TCP"

\* get_or_create_service: GET /api/ipam/services/?ip_address_id=<ip_id>
NSvcGet ==
    /\ pc = "nsvc_get"
    /\ \E o \in {"exc", "ok"} :
         LET port == batch[loc.k]
             existing == {sv \in cat.svc : sv.ip = loc.ip_id}
             hit == IF o = "ok" /\ ServiceExists(existing, port) THEN 1 ELSE 0
         IN /\ log' = Append(log, Entry("nsvc_get", o, loc.ip_id, port, hit))
            /\ IF o = "exc"
               THEN /\ loc' = [loc EXCEPT !.k = @ + 1, !.ret = SvcLoopRet(loc.k + 1)]
                    /\ pc' = SvcPortLoop(loc.k + 1)
               ELSE IF hit = 1
               THEN /\ loc' = [loc EXCEPT !.k = @ + 1, !.created_count = @ + 1,
                                          !.ret = SvcLoopRet(loc.k + 1)]
                    /\ pc' = SvcPortLoop(loc.k + 1)
               ELSE /\ pc' = "nsvc_post"
                    /\ UNCHANGED loc
    /\ UNCHANGED <<rq, cat, batch, i, rets, writes>>

\* _create_service: the parent the payload of the POST names (0: the payload
\* has name, ports, protocol and description only)
ServiceParent(ip_id) == 0

\* _create_service: POST /api/ipam/services/
NSvcPost ==
    /\ pc = "nsvc_post"
    /\ \E o \in {"exc", "ok"} :
         LET port == batch[loc.k]
             parent == ServiceParent(loc.ip_id)
         IN /\ log' = Append(log, Entry("nsvc_post", o, parent, port, 0))
            /\ IF o = "ok"
               THEN /\ cat' = [cat EXCEPT !.svc = @ \cup
                                 {[id |-> NextId(cat.svc), name |-> AutoName(port),
                                   port |-> port, protocol |-> "TCP", ip |-> parent]}]
                    /\ loc' = [loc EXCEPT !.k = @ + 1, !.created_count = @ + 1,
                                          !.ret = SvcLoopRet(loc.k + 1)]
               ELSE /\ loc' = [loc EXCEPT !.k = @ + 1, !.ret = SvcLoopRet(loc.k + 1)]
                    /\ UNCHANGED cat
            /\ pc' = SvcPortLoop(loc.k + 1)
    /\ UNCHANGED <<rq, batch, i, rets, writes>>

NextSvc == SvcIpGet \/ NSvcGet \/ NSvcPost

SpecSvc == InitSvc /\ [][NextSvc]_vars

\* the creates of records that hang off a parent record
ChildCreates == {"if_post", "mac_post", "dif_post", "svc_post", "nsvc_post"}

\* C21: every create of an interface, MAC binding or service names a parent
\* record in its payload.
C21_ChildCreateNamesParent ==
    \A k \in 1..Len(log) : log[k].st \in ChildCreates => log[k].ref # 0

(***************************************************************************)
(* Sequential passes of nb_interfaces.ensure_vm_interface_with_mac over    *)
(* one interface, from its MAC stage on, the create of the MAC binding     *)
(* with the attempts make_api_request makes for it.                        *)
(*   i    the number of the pass                                           *)
(*   rq   the make_api_request call of the create                          *)
(*   loc  iface_id, mac, mac_id                                            *)
(***************************************************************************)
MaxPasses == 2

MacIfaceCat ==
    [EmptyCat EXCEPT !.vmif = {[id |-> 1, vm |-> 1, name |-> "eth0", primary_mac |-> 0],
                               [id |-> 2, vm |-> 2, name |-> "eth0", primary_mac |-> 0]}]
\* the binding is there and is the primary MAC of the interface
MacBoundCat ==
    [MacIfaceCat EXCEPT
        !.vmif = {[id |-> 1, vm |-> 1, name |-> "eth0", primary_mac |-> 1],
                  [id |-> 2, vm |-> 2, name |-> "eth0", primary_mac |-> 0]},
        !.mac = {[id |-> 1, mac |-> "aa:01", otype |-> VmIfType, oid |-> 1]}]
\* the same MAC string is bound to the other interface
MacElsewhereCat ==
    [MacIfaceCat EXCEPT
        !.mac = {[id |-> 1, mac |-> "aa:01", otype |-> VmIfType, oid |-> 2]}]
MacStartCats == {MacIfaceCat, MacBoundCat, MacElsewhereCat}

InitMac ==
    /\ cat \in MacStartCats
    /\ \E n \in 1..MaxRetry :
          rq = [RqIdle EXCEPT !.method = "POST", !.timeout = 10, !.retry_count = n]
    /\ batch = <<>> /\ i = 1 /\ log = <<>> /\ rets = <<>> /\ writes = 0
    /\ loc = [iface_id |-> 1, mac |-> "aa:01", mac_id |-> 0]
    /\ pc = "m_get"

\* the lookup of the binding by MAC string, object type and interface id
PassMacGet ==
    /\ pc = "m_get"
    /\ \E o \in {"err", "ok"} :
         LET results == {r \in cat.mac : r.mac = loc.mac /\ r.otype = VmIfType
                                          /\ r.oid = loc.iface_id}
         IN IF o = "err" THEN pc' = "m_ret" /\ UNCHANGED <<loc, rq>>
            ELSE IF Cardinality(results) > 0
            THEN /\ pc' = "m_get_id"
                 /\ loc' = [loc EXCEPT !.mac_id = First(results).id]
                 /\ UNCHANGED rq
            ELSE /\ pc' = "m_post"
                 /\ rq' = [rq EXCEPT !.attempt = 0, !.outs = <<>>, !.used = <<>>,
                                     !.ret = Pending]
                 /\ UNCHANGED loc
    /\ UNCHANGED <<cat, batch, i, log, rets, writes>>

\* whether the catalog stored the record of a POST attempt that ended in o:
\* it did when it answered 200/201, it did not when it answered an error or
\* the connection failed, and it may have when the attempt timed out (the
\* timeout of requests covers the wait for the response)
Stored201(o) ==
    IF o.kind = "response" THEN {o.status \in {200, 201}}
    ELSE IF o.kind = "timeout" THEN {TRUE, FALSE}
    ELSE {FALSE}

\* one attempt of make_api_request for the create of the binding, and, when
\* make_api_request returns, the rest of the create branch
PassMacPostAttempt ==
    /\ pc = "m_post"
    /\ rq.ret = Pending
    /\ rq.attempt < rq.retry_count
    /\ \E o \in AttemptOutcomes : \E stored \in Stored201(o) :
         LET id == NextId(cat.mac)
             ret == AttemptReturn(o, rq.attempt + 1, rq.retry_count)
         IN /\ rq' = [rq EXCEPT !.attempt = @ + 1, !.outs = Append(@, o),
                                !.used = Append(@, rq.timeout), !.ret = ret]
            /\ cat' = IF stored
                      THEN [cat EXCEPT !.mac = @ \cup
                              {[id |-> id, mac |-> loc.mac, otype |-> VmIfType,
                                oid |-> loc.iface_id]}]
                      ELSE cat
            /\ IF ret = Pending THEN pc' = "m_post" /\ UNCHANGED loc
               ELSE IF ret.kind = "response" /\ ret.status \in {200, 201}
               THEN pc' = "m_get_id" /\ loc' = [loc EXCEPT !.mac_id = id]
               ELSE pc' = "m_ret" /\ UNCHANGED loc
    /\ UNCHANGED <<batch, i, log, rets, writes>>

\* the interface is read again for its primary_mac_address
PassIfGetById ==
    /\ pc = "m_get_id"
    /\ \E o \in {"err", "ok"} :
         LET iface == CHOOSE r \in cat.vmif : r.id = loc.iface_id
         IN IF o = "err" \/ (iface.primary_mac # 0 /\ iface.primary_mac = loc.mac_id)
            THEN pc' = "m_ret"
            ELSE pc' = "m_patch"
    /\ UNCHANGED <<rq, cat, batch, i, loc, log, rets, writes>>

PassIfPatchMac ==
    /\ pc = "m_patch"
    /\ \E o \in {"err", "ok"} :
         cat' = IF o = "ok"
                THEN [cat EXCEPT !.vmif = {IF r.id = loc.iface_id
                                           THEN [r EXCEPT !.primary_mac = loc.mac_id]
                                           ELSE r : r \in @}]
                ELSE cat
    /\ pc' = "m_ret"
    /\ UNCHANGED <<rq, batch, i, loc, log, rets, writes>>

\* the next pass calls ensure_vm_interface_with_mac again
NextPass ==
    /\ pc = "m_ret"
    /\ i < MaxPasses
    /\ i' = i + 1
    /\ loc' = [loc EXCEPT !.mac_id = 0]
    /\ pc' = "m_get"
    /\ UNCHANGED <<rq, cat, batch, log, rets, writes>>

NextMac ==
    PassMacGet \/ PassMacPostAttempt \/ PassIfGetById \/ PassIfPatchMac \/ NextPass

SpecMac == InitMac /\ [][NextMac]_vars

\* C22: the catalog holds at most one MAC binding for every pair of a MAC
\* string and an interface.
C22_OneBindingPerMacAndInterface ==
    \A a, b \in cat.mac :
        (a.mac = b.mac /\ a.otype = b.otype /\ a.oid = b.oid) => a.id = b.id

\* C23: every host address has at most one IP record in the catalog (a record
\* carries one assignment, so the address is on at most one interface).
C23_OneRecordPerHostAddress ==
    \A a, b \in cat.ip : a.addr.host = b.addr.host => a.id = b.id

\* the place of a request in the chain of get_or_create_vm
StageRank(st) ==
    CASE st = "vm_get" -> 1
      [] st \in {"vm_patch_status", "vm_post"} -> 2
      [] st = "vm_patch_res" -> 3
      [] st = "if_get" -> 4
      [] st = "if_post" -> 5
      [] st = "mac_get" -> 6
      [] st = "mac_post" -> 7
      [] st = "if_get_id" -> 8
      [] st = "if_patch_mac" -> 9
      [] st = "ip_get" -> 10
      [] st = "ip_post" -> 11
      [] st = "ip_patch" -> 12
      [] st = "vm_patch_pip" -> 13
      [] OTHER -> 0

\* C24: the requests issued for one VM follow the chain VM, interface, MAC
\* binding, primary MAC, IP address, IP assignment, primary IP: each request
\* is of a later step than the one before it (a request is issued when the
\* one before it has returned).
C24_StagesInOrder ==
    \A k \in 1..(Len(log) - 1) :
        (log[k].st \in VmStages /\ log[k + 1].st \in VmStages)
            => StageRank(log[k].st) < StageRank(log[k + 1].st)
\* a VM for which a request of each of the seven stages was issued
C24_Witness ==
    /\ pc = "vm_ret"
    /\ {"vm_post", "if_post", "mac_post", "if_patch_mac", "ip_post", "ip_patch",
        "vm_patch_pip"} \subseteq {log[k].st : k \in 1..Len(log)}

\* the devices named as host h, and those that own its address
NamedDevices(h) == {r.id : r \in {d \in cat.dev : d.name = DeviceName(h)}}
\* the name lookup of _get_existing_device answers with a device while the
\* address of the host is on the interface of another device
NameAndAddressDisagree ==
    /\ pc = "dev_get"
    /\ NamedDevices(batch[i]) # {}
    /\ IpOwnerDevices(cat, batch[i].ip) \ NamedDevices(batch[i]) # {}

\* C25: when the lookup by name matches a device and the address belongs to
\* another one, _get_existing_device returns the device matched by name, the
\* lookup by address is not made, and the lookup changes no catalog record.
C25_NameMatchWins ==
    [][(NameAndAddressDisagree /\ DevGet /\ Last(log').out = "ok")
         => /\ loc'.device_id \in NamedDevices(batch[i])
            /\ pc' = "dif_get"
            /\ cat' = cat]_vars
\* device 1 was returned for the name while the address is on device 2
C25_Witness ==
    /\ pc = "dif_get" /\ log # <<>>
    /\ Last(log).st = "dev_get" /\ Last(log).out = "ok"
    /\ loc.device_id = 1
    /\ NamedDevices(batch[i]) = {1}
    /\ IpOwnerDevices(cat, batch[i].ip) = {2}

(***************************************************************************)
(* netbox-sync.integrate_network_scanning and                              *)
(* NetworkScanningIntegration.scan_and_create_devices                      *)
(*   batch  the networks of NETWORK_SCANNING_NETWORKS                      *)
(*   cat    the catalog                                                    *)
(*   loc    enabled, ports, k (network), active_hosts, h (host),           *)
(*          open_ports of the last host, total_created, discovered         *)
(*   rets   the values returned: created, then the result of the           *)
(*          integration                                                    *)
(***************************************************************************)
MaxNets == 2

\* a catalog that has a device for 10.0.0.1
DiscKnownCat ==
    [BaseDevCat EXCEPT
        !.dev = {[id |-> 1, name |-> "host-10-0-0-1", dtype |-> 1, site |-> 1]},
        !.dif = {[id |-> 1, device |-> 1, name |-> EthName]},
        !.ip = {[id |-> 1, addr |-> Addr("10.0.0.1", 32), otype |-> DevIfType, oid |-> 1]}]

InitDisc ==
    /\ rq = RqIdle /\ i = 0 /\ log = <<>> /\ writes = 0 /\ rets = <<>>
    /\ cat \in {EmptyCat, BaseDevCat, DiscKnownCat}
    /\ batch \in UNION { [1..n -> Networks] : n \in 0..MaxNets }
    /\ \E enabled \in BOOLEAN, ports \in {<<>>, <<22, 80>>} :
          loc = [enabled |-> enabled, ports |-> ports, k |-> 1,
                 active_hosts |-> <<>>, h |-> 1, open_ports |-> {},
                 total_created |-> 0, discovered |-> {}]
    /\ pc = "integrate"

\* integrate_network_scanning up to the call of scan_and_create_devices
DiscStart ==
    /\ pc = "integrate"
    /\ IF ~loc.enabled \/ batch = <<>>
       THEN pc' = "done" /\ rets' = <<TRUE>>
       ELSE pc' = "scan_network" /\ UNCHANGED rets
    /\ UNCHANGED <<rq, cat, batch, i, loc, log, writes>>

\* the loop takes a network: scan_network returns the hosts that answered
\* (any of the hosts of the network), none for a string that is no network
DiscScanNetwork ==
    /\ pc = "scan_network"
    /\ loc.k <= Len(batch)
    /\ \E live \in SUBSET Range(NetHosts(batch[loc.k])) :
         LET active_hosts == SelectSeq(NetHosts(batch[loc.k]), LAMBDA ip : ip \in live)
         IN IF active_hosts = <<>>
            THEN /\ loc' = [loc EXCEPT !.k = @ + 1, !.active_hosts = <<>>]
                 /\ pc' = "scan_network"
            ELSE /\ loc' = [loc EXCEPT !.active_hosts = active_hosts, !.h = 1,
                                       !.discovered = @ \cup live]
                 /\ pc' = "host"
    /\ UNCHANGED <<rq, cat, batch, i, log, rets, writes>>

\* one host of active_hosts: its ports are probed and logged, the device
\* creation is a TODO, the counter is incremented
DiscHost ==
    /\ pc = "host"
    /\ \E open_ports \in SUBSET Range(loc.ports) :
         LET last == loc.h = Len(loc.active_hosts)
         IN /\ loc' = [loc EXCEPT !.open_ports = open_ports,
                                  !.total_created = @ + 1,
                                  !.h = IF last THEN 1 ELSE @ + 1,
                                  !.k = IF last THEN @ + 1 ELSE @]
            /\ pc' = IF last THEN "scan_network" ELSE "host"
    /\ UNCHANGED <<rq, cat, batch, i, log, rets, writes>>

\* scan_and_create_devices returns total_created, integrate_network_scanning
\* logs it and returns True
DiscReturn ==
    /\ pc = "scan_network"
    /\ loc.k > Len(batch)
    /\ rets' = <<loc.total_created, TRUE>>
    /\ pc' = "done"
    /\ UNCHANGED <<rq, cat, batch, i, loc, log, writes>>

NextDisc == DiscStart \/ DiscScanNetwork \/ DiscHost \/ DiscReturn

SpecDisc == InitDisc /\ [][NextDisc]_vars

\* the catalog has a device for the address: one of its interfaces has it
HasDevice(c, ip) == IpOwnerDevices(c, ip) # {}

\* C26: when the discovery scan has returned, the catalog has a device for
\* every host the scan reported live, and the count returned is the number of
\* those devices.
C26_LiveHostsBecomeDevices ==
    (pc = "done" /\ Len(rets) = 2) =>
        /\ \A ip \in loc.discovered : HasDevice(cat, ip)
        /\ rets[1] = Cardinality(loc.discovered)

(***************************************************************************)
(* netbox-sync.main up to the loop over the VMs, with get_proxmox_vms      *)
(*   batch  the nodes api.nodes.get() returns, each with what its two      *)
(*          inventory listings do                                          *)
(*   i      the node get_proxmox_vms is at                                 *)
(*   loc    connect, nodes_get, cluster: how the three calls ended ("":    *)
(*          not made); vms: len(vms)                                       *)
(***************************************************************************)
MaxNodes == 2
MaxGuests == 1

\* a node: whether api.nodes(n).qemu.get() / .lxc.get() returns or raises,
\* and the number of guests whose config can be read
NodeInventories ==
    [qemu_ok : BOOLEAN, qemu_n : 0..MaxGuests, lxc_ok : BOOLEAN, lxc_n : 0..MaxGuests]

InitMain ==
    /\ rq = RqIdle /\ cat = <<>> /\ log = <<>> /\ rets = <<>> /\ writes = 0
    /\ batch \in UNION { [1..n -> NodeInventories] : n \in 0..MaxNodes }
    /\ i = 0
    /\ loc = [connect |-> "", nodes_get |-> "", cluster |-> "", vms |-> 0]
    /\ pc = "connect"

\* ProxmoxAPI(...): an exception is logged and the process exits with 1
MainConnect ==
    /\ pc = "connect"
    /\ \E o \in {"ok", "raise"} :
         /\ loc' = [loc EXCEPT !.connect = o]
         /\ pc' = IF o = "ok" THEN "nodes_get" ELSE "exit1"
    /\ UNCHANGED <<rq, cat, batch, i, log, rets, writes>>

\* get_proxmox_vms: api.nodes.get(); an exception returns []
NodesGet ==
    /\ pc = "nodes_get"
    /\ \E o \in {"ok", "raise"} :
         /\ loc' = [loc EXCEPT !.nodes_get = o]
         /\ pc' = IF o = "ok" THEN "node" ELSE "vms_check"
    /\ i' = 1
    /\ UNCHANGED <<rq, cat, batch, log, rets, writes>>

\* get_proxmox_vms: one node; a listing that raises is logged and adds nothing
NodeInventory ==
    /\ pc = "node"
    /\ i <= Len(batch)
    /\ loc' = [loc EXCEPT !.vms = @ + (IF batch[i].qemu_ok THEN batch[i].qemu_n ELSE 0)
                                   + (IF batch[i].lxc_ok THEN batch[i].lxc_n ELSE 0)]
    /\ i' = i + 1
    /\ UNCHANGED <<rq, cat, batch, pc, log, rets, writes>>

\* get_proxmox_vms returns vms
NodesDone ==
    /\ pc = "node"
    /\ i > Len(batch)
    /\ pc' = "vms_check"
    /\ UNCHANGED <<rq, cat, batch, i, loc, log, rets, writes>>

\* main: if not vms: sys.exit(1)
VmsCheck ==
    /\ pc = "vms_check"
    /\ pc' = IF loc.vms = 0 THEN "exit1" ELSE "cluster"
    /\ UNCHANGED <<rq, cat, batch, i, loc, log, rets, writes>>

\* main: cluster_id = get_or_create_cluster(); if not cluster_id: sys.exit(1).
\* o is how the last catalog request of get_or_create_cluster ended: a
\* request that raises or whose body cannot be read ends main with the
\* exception, an error status returns None.
MainCluster ==
    /\ pc = "cluster"
    /\ \E o \in DirectOutcomes :
         /\ loc' = [loc EXCEPT !.cluster = o]
         /\ pc' = IF o \in {"exc", "bad"} THEN "crashed"
                  ELSE AfterCluster(IF o = "ok" THEN 1 ELSE 0)
    /\ UNCHANGED <<rq, cat, batch, i, log, rets, writes>>

NextMain ==
    MainConnect \/ NodesGet \/ NodeInventory \/ NodesDone \/ VmsCheck \/ MainCluster

SpecMain == InitMain /\ [][NextMain]_vars

\* C27: the process exits with status 1 before the VM loop only when the
\* connection to the hypervisor or to the catalog could not be established.
C27_ExitOnlyOnConnectionFailure ==
    pc \in {"exit1", "crashed"} =>
        \/ loc.connect = "raise"
        \/ loc.nodes_get = "raise"
        \/ loc.cluster = "exc"

IpStages == {"ip_get", "ip_post", "ip_patch", "vm_patch_pip"}
\* get_or_create_vm is at a VM whose address is empty or is no IP address
InvalidIpVm ==
    /\ Running /\ pc \notin {"cl_get", "cl_post"}
    /\ i \in 1..Len(batch)
    /\ (batch[i].ip_addr = NoAddr \/ ~ParsesAsIp(batch[i].ip_addr.host))

VmsToScan(vms) ==
    SelectSeq(vms, LAMBDA vm : vm.ip_addr # NoAddr /\ vm.status = "active")

InitPsi ==
    /\ rq = RqIdle /\ cat = <<>> /\ log = <<>> /\ rets = <<>> /\ writes = 0
    /\ batch \in Batches(VmDicts)
    /\ i = 0
    /\ \E enabled \in BOOLEAN, ports \in {<<22>>, <<22, 80>>} :
          loc = [enabled |-> enabled, ports |-> ports, vms_to_scan |-> <<>>,
                 scanned_count |-> 0, called |-> {}]
    /\ pc = "integrate"

\* integrate_port_scanning up to the call of scan_all_vms_services; an
\* exception of the set-up returns False
PsiStart ==
    /\ pc = "integrate"
    /\ IF ~loc.enabled
       THEN pc' = "done" /\ rets' = <<TRUE>> /\ UNCHANGED <<loc, i>>
       ELSE \E o \in {"ok", "raise"} :
              IF o = "raise"
              THEN pc' = "done" /\ rets' = <<FALSE>> /\ UNCHANGED <<loc, i>>
              ELSE /\ loc' = [loc EXCEPT !.vms_to_scan = VmsToScan(batch)]
                   /\ i' = 1
                   /\ pc' = IF VmsToScan(batch) = <<>> THEN "return" ELSE "scan_vm"
                   /\ UNCHANGED rets
    /\ UNCHANGED <<rq, cat, batch, log, writes>>

\* scan_all_vms_services, one VM: scan_host_ports returns the open ports or
\* raises; create_service_in_netbox is called for every open port and logs
\* what it would create
PsiScanVm ==
    /\ pc = "scan_vm"
    /\ i <= Len(loc.vms_to_scan)
    /\ \E raised \in BOOLEAN, open_ports \in SUBSET Range(loc.ports) :
         loc' = IF raised THEN loc
                ELSE [loc EXCEPT !.scanned_count = @ + 1,
                                 !.called = @ \cup {[vm |-> i, port |-> p] : p \in open_ports}]
    /\ i' = i + 1
    /\ pc' = IF i = Len(loc.vms_to_scan) THEN "return" ELSE "scan_vm"
    /\ UNCHANGED <<rq, cat, batch, log, rets, writes>>

\* scan_all_vms_services returns scanned_count, integrate_port_scanning True
PsiReturn ==
    /\ pc = "return"
    /\ rets' = <<TRUE>>
    /\ pc' = "done"
    /\ UNCHANGED <<rq, cat, batch, i, loc, log, writes>>

NextPsi == PsiStart \/ PsiScanVm \/ PsiReturn

SpecPsi == InitPsi /\ [][NextPsi]_vars

\* C29: when the targeted scan has returned, a service lookup or create was
\* issued to the catalog for every open port found on a scanned VM.
C29_OpenPortsBecomeServiceRequests ==
    pc = "done" =>
        \A c \in loc.called :
            \E k \in 1..Len(log) : /\ Method(log[k].st) \in {"GET", "POST"}
                                    /\ log[k].val = c.port

(***************************************************************************)
(* The two scanners side by side: a behaviour is one call of               *)
(* PortScanner.scan_hosts or one call of NetworkScanner.scan_network       *)
(***************************************************************************)
\* the behaviour is a call of scan_network
IsNet == "step" \in DOMAIN loc

NextScans == (~IsNet /\ NextScan) \/ (IsNet /\ NextNet)

SpecScans == (InitScan \/ InitNet) /\ [][NextScans]_vars

Pinging == {ip \in Range(batch) : loc.task[ip] = "running"}

C30_Bound ==
    IF IsNet
    THEN /\ Cardinality(Pinging) <= loc.max_threads
         /\ (pc = "done" => \A ip \in Range(batch) : loc.task[ip] \in {"True", "False"})
    ELSE \A h \in DOMAIN batch :
           /\ Cardinality(InFlight(h)) <= Min({loc.max_threads, Len(batch[h])})
           /\ (loc.task[h] = "done" =>
                 \A k \in DOMAIN batch[h] : loc.probe[h][k] \notin {"queued", "inflight"})

\* a call that was started is not started again, one that ended stays ended
C30_StartedOnce ==
    IF IsNet
    THEN \A ip \in Range(batch) :
           /\ (loc.task[ip] # "queued" => loc'.task[ip] # "queued")
           /\ (loc.task[ip] \in {"True", "False"} => loc'.task[ip] = loc.task[ip])
    ELSE \A h \in DOMAIN batch : \A k \in DOMAIN batch[h] :
           /\ (loc.probe[h][k] # "queued" => loc'.probe[h][k] # "queued")
           /\ (loc.probe[h][k] \notin {"queued", "inflight"}
                 => loc'.probe[h][k] = loc.probe[h][k])

\* C30: the scan_port calls of one scan_ports call that are in flight never
\* exceed min(max_threads, number of ports), the ping_host calls of one
\* scan_network call that are in flight never exceed max_threads, and every
\* call requested is started once: it has ended when the scan returns and is
\* never started again.
C30_PerScanBound == []C30_Bound /\ [][C30_StartedOnce]_vars
\* one worker for two ports: the first probe has ended, the second is in flight
C30_Witness ==
    /\ ~IsNet /\ pc = "scan_hosts" /\ loc.max_threads = 1
    /\ \E h \in DOMAIN batch :
          /\ Len(batch[h]) = 2
          /\ loc.probe[h][1] \notin {"queued", "inflight"}
          /\ loc.probe[h][2] = "inflight"
\* one worker for two hosts: the first ping_host has returned, the second runs
C30_WitnessNet ==
    /\ IsNet /\ pc = "scan_network" /\ loc.max_threads = 1 /\ Len(batch) = 2
    /\ loc.task[batch[1]] \in {"True", "False"} /\ loc.task[batch[2]] = "running"

\* scan_hosts with threads that run: every probe returns within its timeout,
\* and a worker that is free takes a queued task
SpecScanFair == InitScan /\ [][NextScan]_vars /\ WF_vars(NextScan)

\* a probe that has ended has its result in the results of its scan_ports
C31_Collected ==
    pc = "scan_hosts" =>
        \A h \in DOMAIN batch : \A k \in DOMAIN batch[h] :
            loc.probe[h][k] \notin {"queued", "inflight"}
                => batch[h][k] \in DOMAIN loc.res[h]

\* C31: scan_hosts returns for every input (no worker waits for a task that
\* cannot run), and the result of a probe is collected when the probe ends,
\* whatever the state of the probes submitted before it.
C31_ScanTerminates == <>(pc = "done") /\ []C31_Collected
\* two hosts with two ports each were scanned with one worker per pool
C31_Witness ==
    /\ pc = "done" /\ loc.max_threads = 1
    /\ DOMAIN batch = ScanHosts
    /\ \A h \in DOMAIN batch : Len(batch[h]) = 2 /\ loc.task[h] = "done"

(***************************************************************************)
(* netbox-sync.get_proxmox_vms, guest by guest                             *)
(*   batch  the nodes: whether each listing returns, and for every guest   *)
(*          listed whether its configuration is fetched and interpreted    *)
(*          ("ok") or that raises ("raise")                                *)
(*   i      the node, loc.j the guest of the listing                       *)
(*   rets   vms: the guests appended, as <<node, kind, number>>            *)
(***************************************************************************)
GuestOutcomes == {"ok", "raise"}
GuestLists == UNION { [1..n -> GuestOutcomes] : n \in 0..MaxGuests }
InvNodes == [qemu_ok : BOOLEAN, qemu : GuestLists, lxc_ok : BOOLEAN, lxc : GuestLists]

InitInv ==
    /\ rq = RqIdle /\ cat = <<>> /\ log = <<>> /\ writes = 0
    /\ batch \in UNION { [1..n -> InvNodes] : n \in 0..MaxNodes }
    /\ i = 0 /\ loc = [j |-> 1, nodes_get |-> ""]
    /\ rets = <<>>
    /\ pc = "nodes_get"

\* where the loop over the nodes is once node k - 1 is finished
InvNode(k) == IF k > Len(batch) THEN "return" ELSE "qemu_list"

\* api.nodes.get(): an exception returns []
InvNodesGet ==
    /\ pc = "nodes_get"
    /\ \E o \in {"ok", "raise"} :
         /\ loc' = [loc EXCEPT !.nodes_get = o]
         /\ pc' = IF o = "ok" THEN InvNode(1) ELSE "done"
    /\ i' = 1
    /\ UNCHANGED <<rq, cat, batch, log, rets, writes>>

\* the body of the loop over a listing for one guest: vm_data is appended, or
\* the exception is logged and the loop goes on
GuestStepDropsAll(vms, id, o) == IF o = "ok" THEN Append(vms, id) ELSE <<>>
GuestStep(vms, id, o) == IF o = "ok" THEN Append(vms, id) ELSE vms

\* api.nodes(node_name).qemu.get(): an exception is logged
InvQemuList ==
    /\ pc = "qemu_list"
    /\ pc' = IF batch[i].qemu_ok /\ batch[i].qemu # <<>> THEN "qemu_guest" ELSE "lxc_list"
    /\ loc' = [loc EXCEPT !.j = 1]
    /\ UNCHANGED <<rq, cat, batch, i, log, rets, writes>>

InvQemuGuest ==
    /\ pc = "qemu_guest"
    /\ rets' = GuestStep(rets, <<i, "qemu", loc.j>>, batch[i].qemu[loc.j])
    /\ loc' = [loc EXCEPT !.j = @ + 1]
    /\ pc' = IF loc.j = Len(batch[i].qemu) THEN "lxc_list" ELSE "qemu_guest"
    /\ UNCHANGED <<rq, cat, batch, i, log, writes>>

\* api.nodes(node_name).lxc.get(): an exception gives lxc_list = []
InvLxcList ==
    /\ pc = "lxc_list"
    /\ IF batch[i].lxc_ok /\ batch[i].lxc # <<>>
       THEN pc' = "lxc_guest" /\ i' = i
       ELSE pc' = InvNode(i + 1) /\ i' = i + 1
    /\ loc' = [loc EXCEPT !.j = 1]
    /\ UNCHANGED <<rq, cat, batch, log, rets, writes>>

InvLxcGuest ==
    /\ pc = "lxc_guest"
    /\ rets' = GuestStep(rets, <<i, "lxc", loc.j>>, batch[i].lxc[loc.j])
    /\ loc' = [loc EXCEPT !.j = @ + 1]
    /\ IF loc.j = Len(batch[i].lxc)
       THEN pc' = InvNode(i + 1) /\ i' = i + 1
       ELSE pc' = "lxc_guest" /\ i' = i
    /\ UNCHANGED <<rq, cat, batch, log, writes>>

\* return vms
InvReturn ==
    /\ pc = "return"
    /\ pc' = "done"
    /\ UNCHANGED <<rq, cat, batch, i, loc, log, rets, writes>>

NextInv ==
    InvNodesGet \/ InvQemuList \/ InvQemuGuest \/ InvLxcList \/ InvLxcGuest \/ InvReturn

SpecInv == InitInv /\ [][NextInv]_vars

\* the guests whose listing returned and whose configuration was read
ReadableGuests ==
    UNION { {<<n, "qemu", j>> : j \in {x \in DOMAIN batch[n].qemu :
                                        batch[n].qemu_ok /\ batch[n].qemu[x] = "ok"}}
            \cup {<<n, "lxc", j>> : j \in {x \in DOMAIN batch[n].lxc :
                                        batch[n].lxc_ok /\ batch[n].lxc[x] = "ok"}}
            : n \in DOMAIN batch }

IsVmPass == "cluster_id" \in DOMAIN loc

NextPasses == (IsVmPass /\ NextVM) \/ (~IsVmPass /\ NextDev)

SpecPasses == (InitVM \/ InitDev) /\ [][NextPasses]_vars

Logged(S) == \E k \in 1..Len(log) : log[k].st \in S

\* C33: a request for a VM is issued only with a cluster id, a request for a
\* device, interface, address or service only with a site id and a
\* device-type id; a pass that could not obtain them ends without such a
\* request, process_discovered_hosts returning 0.
C33_NoChildWithoutParent ==
    IF IsVmPass
    THEN /\ (pc \in VmStages \cup {"vm_ret"} \/ Logged(VmStages)) => loc.cluster_id # 0
         /\ (pc \in {"exit1", "crashed"} /\ loc.cluster_id = 0)
               => (rets = <<>> /\ ~Logged(VmStages))
    ELSE /\ (pc \in DevStages \cup {"host_ret"} \/ Logged(DevStages))
               => (loc.site_id # 0 /\ loc.device_type_id # 0)
         /\ Logged({"dt_post"}) => loc.manufacturer_id # 0
         /\ (pc = "done" /\ (loc.site_id = 0 \/ loc.device_type_id = 0))
               => (loc.processed = 0 /\ rets = <<>> /\ ~Logged(DevStages))
\* the site was obtained, the manufacturer could not be created: the call
\* ended with hosts to process and none processed
C33_Witness ==
    /\ ~IsVmPass /\ pc = "done" /\ Len(batch) > 0
    /\ loc.site_id # 0 /\ loc.manufacturer_id = 0 /\ loc.device_type_id = 0
    /\ log # <<>> /\ Last(log).st = "mf_post"
    /\ loc.processed = 0
\* the cluster could not be created: main exits before the first VM
C33_WitnessVm ==
    /\ IsVmPass /\ pc = "exit1" /\ loc.cluster_id = 0
    /\ log # <<>> /\ Last(log).st = "cl_post"

\* C34: when a pass in which every request succeeded has ended, the primary
\* address of every VM that has one is an IP record assigned to an interface
\* of that VM.
C34_PrimaryIpOnOwnInterface ==
    (pc = "done" /\ \A k \in 1..Len(rets) : rets[k].clean) =>
        \A v \in cat.vm :
            v.primary_ip4 # 0 =>
                \E a \in cat.ip, f \in cat.vmif :
                    /\ a.id = v.primary_ip4
                    /\ a.otype = VmIfType /\ a.oid = f.id
                    /\ f.vm = v.id

AssignStages == {"aip_get", "aip_post", "aip_patch"}

\* C35: once create_device_interface has returned for a host whose address
\* had no record (the lookup answered with an empty list) and every request
\* of the interface and address stages succeeded, the address has a record
\* assigned to the interface of the device.
C35_DiscoveredHostGetsIp ==
    (/\ pc \in {"svc_get", "svc_post", "host_ret"}
     /\ \E k \in 1..Len(log) : log[k].st = "aip_get" /\ log[k].out = "ok" /\ log[k].hit = 0
     /\ \A k \in 1..Len(log) :
           log[k].st \in AssignStages \cup {"dif_get", "dif_post"} => log[k].out = "ok")
    => \E r \in cat.ip : /\ SplitHost(r.addr) = batch[i].ip
                         /\ r.otype = DevIfType /\ r.oid = loc.interface_id

(***************************************************************************)
(* sync_services called again with the same address and ports             *)
(*   i     the calls that have returned                                    *)
(*   rets  for each of them its value, the services of the catalog and the *)
(*         number of requests issued when it returned                      *)
(***************************************************************************)
MaxCalls == 2

SvcAgain ==
    /\ pc = "done"
    /\ i < MaxCalls - 1
    /\ rets' = Append(rets, [ret |-> loc.ret, svc |-> cat.svc, requests |-> Len(log)])
    /\ i' = i + 1
    /\ loc' = [ip_id |-> 0, k |-> 0, created_count |-> 0, ret |-> "pending"]
    /\ pc' = "nsvc_ip"
    /\ UNCHANGED <<rq, cat, batch, log, writes>>

NextSvcTwice == NextSvc \/ SvcAgain

SpecSvcTwice == InitSvc /\ [][NextSvcTwice]_vars

\* C36: a second sync_services call for the same address and ports, every
\* request of both calls succeeding, issues no service create and leaves the
\* services of the catalog as the first call left them.
C36_SecondSyncCreatesNothing ==
    (/\ pc = "done" /\ i = 1
     /\ rets[1].ret = "True" /\ loc.ret = "True"
     /\ \A k \in 1..Len(log) : log[k].out = "ok")
    => /\ cat.svc = rets[1].svc
       /\ \A k \in (rets[1].requests + 1)..Len(log) : log[k].st # "nsvc_post"

\* host_info lists its open ports and, in the same order, the service
\* detected on each
DetectedOn(h, service_name, port) ==
    \E k \in DOMAIN h.services \cap DOMAIN h.open_ports :
        h.services[k] = service_name /\ h.open_ports[k] = port

\* C37: every service request of process_discovered_hosts pairs a service
\* name with a port of the host on which that service was detected.
C37_ServiceOnItsOwnPort ==
    pc \in {"svc_get", "svc_post"} =>
        DetectedOn(batch[i], batch[i].services[loc.s], batch[i].open_ports[loc.p])

(***************************************************************************)
(* A failure after the interface is known, and a VM without a MAC          *)
(***************************************************************************)
IfStages == {"if_get", "if_post"}
MacStages == {"mac_get", "mac_post", "if_get_id", "if_patch_mac"}
\* the request of a MAC stage that this step issued came back failed
MacStageFails ==
    /\ pc \in MacStages
    /\ Len(log') = Len(log) + 1
    /\ log'[Len(log')].st = pc /\ log'[Len(log')].out = "fail"
\* get_or_create_vm is at a VM whose mac_addr is empty
NoMacVm ==
    /\ Running /\ pc \notin {"cl_get", "cl_post"}
    /\ i \in 1..Len(batch)
    /\ batch[i].mac_addr = ""

\* C38: when a request of the MAC stage (binding lookup, binding create, the
\* read or the patch of primary_mac_address) fails, the interface id found or
\* created before is still returned and, the VM having a valid address, the
\* next request is the IP lookup for that interface; for a VM without a MAC no
\* interface, MAC-binding or IP request is issued.
C38_MacFailureKeepsIpStage ==
    /\ [][MacStageFails =>
             /\ loc.iface_id # 0 /\ loc'.iface_id = loc.iface_id
             /\ (batch[i].ip_addr # NoAddr /\ ParsesAsIp(batch[i].ip_addr.host)
                   => pc' = "ip_get")]_vars
    /\ [](NoMacVm =>
             /\ pc \notin IfStages \cup MacStages \cup IpStages
             /\ \A k \in 1..Len(log) :
                    log[k].st \notin IfStages \cup MacStages \cup IpStages)
\* the binding lookup failed for a VM with a valid address and the IP lookup
\* for the same interface was issued after it
C38_Witness ==
    /\ pc \in {"ip_post", "ip_patch", "vm_patch_pip", "vm_ret"} /\ i \in 1..Len(batch)
    /\ loc.iface_id # 0
    /\ \E k \in 1..(Len(log) - 1) :
          /\ log[k].st = "mac_get" /\ log[k].out = "fail"
          /\ log[k + 1].st = "ip_get"
\* the VM without a MAC was handled and returned with no such request
C38_WitnessNoMac ==
    /\ pc = "vm_ret" /\ i \in 1..Len(batch) /\ batch[i].mac_addr = ""
    /\ loc.ret = TRUE /\ Len(log) > 0

(***************************************************************************)
(* A port string with a malformed part                                     *)
(***************************************************************************)
\* a part that is neither an integer nor a range a-b of two integers: the
\* empty part, a word, a range without its start, a range of three numbers
MalformedPart(part) == part \in {"", "x", "-5", "1-2-3"}

====
